---- MODULE Spec2Model ----
(***************************************************************************)
(* atrace / amigactld: the tracing engine's ring buffer, the generated     *)
(* stubs that produce into it, and the daemon's consumer and TRACE verbs.  *)
(*                                                                         *)
(* Scheduling: producers are Exec tasks that may be switched between any   *)
(* two stub instructions except inside Disable()/Enable(); the daemon is   *)
(* one task and runs one handler at a time; the loader is a third task.    *)
(***************************************************************************)
EXTENDS Integers, Sequences, FiniteSets, TLC

(* ---------------- bounds ---------------- *)

RingCap ==
    3

MaxCalls ==
    4

(* TRACE RUN commands the daemon accepts: the cap of next_proc_id *)
MaxRuns ==
    2

(* Lock and CreateDir events cached between two session starts *)
MaxLocks ==
    3

(* Command lines in one receive of a client *)
MaxLines ==
    2

(* Loader runs that attempt an installation *)
MaxInstalls ==
    2

(* ---------------- program constants ---------------- *)

LOCK_CACHE_SIZE ==
    32

PollBatch ==
    64

ATRACE_VERSION ==
    2

PROC_RUNNING ==
    0

PROC_EXITED ==
    1

TRACE_MODE_START ==
    0

TRACE_MODE_RUN ==
    1

LIB_EXEC ==
    0

LIB_DOS ==
    1

ERR_CHECK_NULL ==
    0

ERR_CHECK_NZERO ==
    1

ERR_CHECK_VOID ==
    2

ERR_CHECK_ANY ==
    3

ERR_CHECK_NONE ==
    4

ERR_CHECK_RC ==
    5

ERR_CHECK_NEGATIVE ==
    6

RET_PTR ==
    0

RET_BOOL_DOS ==
    1

RET_NZERO_ERR ==
    2

RET_VOID ==
    3

RET_MSG_PTR ==
    4

RET_RC ==
    5

RET_LOCK ==
    6

RET_LEN ==
    7

RET_OLD_LOCK ==
    8

NULL ==
    "null"

func_table ==
    <<
       [lib_name |-> <<"e","x","e","c">>, func_name |-> <<"F","i","n","d","P","o","r","t">>,
        lib_id |-> LIB_EXEC, lvo_offset |-> -390, error_check |-> ERR_CHECK_NULL,
        has_string |-> 1, result_type |-> RET_PTR],
       [lib_name |-> <<"e","x","e","c">>, func_name |-> <<"F","i","n","d","R","e","s","i","d","e","n","t">>,
        lib_id |-> LIB_EXEC, lvo_offset |-> -96, error_check |-> ERR_CHECK_NULL,
        has_string |-> 1, result_type |-> RET_PTR],
       [lib_name |-> <<"e","x","e","c">>, func_name |-> <<"F","i","n","d","S","e","m","a","p","h","o","r","e">>,
        lib_id |-> LIB_EXEC, lvo_offset |-> -594, error_check |-> ERR_CHECK_NULL,
        has_string |-> 1, result_type |-> RET_PTR],
       [lib_name |-> <<"e","x","e","c">>, func_name |-> <<"F","i","n","d","T","a","s","k">>,
        lib_id |-> LIB_EXEC, lvo_offset |-> -294, error_check |-> ERR_CHECK_NULL,
        has_string |-> 1, result_type |-> RET_PTR],
       [lib_name |-> <<"e","x","e","c">>, func_name |-> <<"O","p","e","n","D","e","v","i","c","e">>,
        lib_id |-> LIB_EXEC, lvo_offset |-> -444, error_check |-> ERR_CHECK_NZERO,
        has_string |-> 1, result_type |-> RET_NZERO_ERR],
       [lib_name |-> <<"e","x","e","c">>, func_name |-> <<"O","p","e","n","L","i","b","r","a","r","y">>,
        lib_id |-> LIB_EXEC, lvo_offset |-> -552, error_check |-> ERR_CHECK_NULL,
        has_string |-> 1, result_type |-> RET_PTR],
       [lib_name |-> <<"e","x","e","c">>, func_name |-> <<"O","p","e","n","R","e","s","o","u","r","c","e">>,
        lib_id |-> LIB_EXEC, lvo_offset |-> -498, error_check |-> ERR_CHECK_NULL,
        has_string |-> 1, result_type |-> RET_PTR],
       [lib_name |-> <<"e","x","e","c">>, func_name |-> <<"G","e","t","M","s","g">>,
        lib_id |-> LIB_EXEC, lvo_offset |-> -372, error_check |-> ERR_CHECK_NONE,
        has_string |-> 0, result_type |-> RET_MSG_PTR],
       [lib_name |-> <<"e","x","e","c">>, func_name |-> <<"P","u","t","M","s","g">>,
        lib_id |-> LIB_EXEC, lvo_offset |-> -366, error_check |-> ERR_CHECK_VOID,
        has_string |-> 0, result_type |-> RET_VOID],
       [lib_name |-> <<"e","x","e","c">>, func_name |-> <<"O","b","t","a","i","n","S","e","m","a","p","h","o","r","e">>,
        lib_id |-> LIB_EXEC, lvo_offset |-> -564, error_check |-> ERR_CHECK_VOID,
        has_string |-> 0, result_type |-> RET_VOID],
       [lib_name |-> <<"e","x","e","c">>, func_name |-> <<"R","e","l","e","a","s","e","S","e","m","a","p","h","o","r","e">>,
        lib_id |-> LIB_EXEC, lvo_offset |-> -570, error_check |-> ERR_CHECK_VOID,
        has_string |-> 0, result_type |-> RET_VOID],
       [lib_name |-> <<"e","x","e","c">>, func_name |-> <<"A","l","l","o","c","M","e","m">>,
        lib_id |-> LIB_EXEC, lvo_offset |-> -198, error_check |-> ERR_CHECK_NULL,
        has_string |-> 0, result_type |-> RET_PTR],
       [lib_name |-> <<"d","o","s">>, func_name |-> <<"O","p","e","n">>,
        lib_id |-> LIB_DOS, lvo_offset |-> -30, error_check |-> ERR_CHECK_NULL,
        has_string |-> 1, result_type |-> RET_PTR],
       [lib_name |-> <<"d","o","s">>, func_name |-> <<"C","l","o","s","e">>,
        lib_id |-> LIB_DOS, lvo_offset |-> -36, error_check |-> ERR_CHECK_NULL,
        has_string |-> 0, result_type |-> RET_BOOL_DOS],
       [lib_name |-> <<"d","o","s">>, func_name |-> <<"L","o","c","k">>,
        lib_id |-> LIB_DOS, lvo_offset |-> -84, error_check |-> ERR_CHECK_NULL,
        has_string |-> 1, result_type |-> RET_LOCK],
       [lib_name |-> <<"d","o","s">>, func_name |-> <<"D","e","l","e","t","e","F","i","l","e">>,
        lib_id |-> LIB_DOS, lvo_offset |-> -72, error_check |-> ERR_CHECK_NULL,
        has_string |-> 1, result_type |-> RET_BOOL_DOS],
       [lib_name |-> <<"d","o","s">>, func_name |-> <<"E","x","e","c","u","t","e">>,
        lib_id |-> LIB_DOS, lvo_offset |-> -222, error_check |-> ERR_CHECK_NULL,
        has_string |-> 1, result_type |-> RET_BOOL_DOS],
       [lib_name |-> <<"d","o","s">>, func_name |-> <<"G","e","t","V","a","r">>,
        lib_id |-> LIB_DOS, lvo_offset |-> -906, error_check |-> ERR_CHECK_NEGATIVE,
        has_string |-> 1, result_type |-> RET_LEN],
       [lib_name |-> <<"d","o","s">>, func_name |-> <<"F","i","n","d","V","a","r">>,
        lib_id |-> LIB_DOS, lvo_offset |-> -918, error_check |-> ERR_CHECK_NULL,
        has_string |-> 1, result_type |-> RET_PTR],
       [lib_name |-> <<"d","o","s">>, func_name |-> <<"L","o","a","d","S","e","g">>,
        lib_id |-> LIB_DOS, lvo_offset |-> -150, error_check |-> ERR_CHECK_NULL,
        has_string |-> 1, result_type |-> RET_PTR],
       [lib_name |-> <<"d","o","s">>, func_name |-> <<"N","e","w","L","o","a","d","S","e","g">>,
        lib_id |-> LIB_DOS, lvo_offset |-> -768, error_check |-> ERR_CHECK_NULL,
        has_string |-> 1, result_type |-> RET_PTR],
       [lib_name |-> <<"d","o","s">>, func_name |-> <<"C","r","e","a","t","e","D","i","r">>,
        lib_id |-> LIB_DOS, lvo_offset |-> -120, error_check |-> ERR_CHECK_NULL,
        has_string |-> 1, result_type |-> RET_LOCK],
       [lib_name |-> <<"d","o","s">>, func_name |-> <<"M","a","k","e","L","i","n","k">>,
        lib_id |-> LIB_DOS, lvo_offset |-> -444, error_check |-> ERR_CHECK_NULL,
        has_string |-> 1, result_type |-> RET_BOOL_DOS],
       [lib_name |-> <<"d","o","s">>, func_name |-> <<"R","e","n","a","m","e">>,
        lib_id |-> LIB_DOS, lvo_offset |-> -78, error_check |-> ERR_CHECK_NULL,
        has_string |-> 1, result_type |-> RET_BOOL_DOS],
       [lib_name |-> <<"d","o","s">>, func_name |-> <<"R","u","n","C","o","m","m","a","n","d">>,
        lib_id |-> LIB_DOS, lvo_offset |-> -504, error_check |-> ERR_CHECK_RC,
        has_string |-> 0, result_type |-> RET_RC],
       [lib_name |-> <<"d","o","s">>, func_name |-> <<"S","e","t","V","a","r">>,
        lib_id |-> LIB_DOS, lvo_offset |-> -900, error_check |-> ERR_CHECK_NULL,
        has_string |-> 1, result_type |-> RET_BOOL_DOS],
       [lib_name |-> <<"d","o","s">>, func_name |-> <<"D","e","l","e","t","e","V","a","r">>,
        lib_id |-> LIB_DOS, lvo_offset |-> -912, error_check |-> ERR_CHECK_NULL,
        has_string |-> 1, result_type |-> RET_BOOL_DOS],
       [lib_name |-> <<"d","o","s">>, func_name |-> <<"S","y","s","t","e","m","T","a","g","L","i","s","t">>,
        lib_id |-> LIB_DOS, lvo_offset |-> -606, error_check |-> ERR_CHECK_RC,
        has_string |-> 1, result_type |-> RET_RC],
       [lib_name |-> <<"d","o","s">>, func_name |-> <<"A","d","d","D","o","s","E","n","t","r","y">>,
        lib_id |-> LIB_DOS, lvo_offset |-> -678, error_check |-> ERR_CHECK_NULL,
        has_string |-> 0, result_type |-> RET_BOOL_DOS],
       [lib_name |-> <<"d","o","s">>, func_name |-> <<"C","u","r","r","e","n","t","D","i","r">>,
        lib_id |-> LIB_DOS, lvo_offset |-> -126, error_check |-> ERR_CHECK_VOID,
        has_string |-> 0, result_type |-> RET_OLD_LOCK]
    >>

FUNC_TABLE_SIZE ==
    Len(func_table)

noise_func_names ==
    << <<"F","i","n","d","P","o","r","t">>,
       <<"F","i","n","d","S","e","m","a","p","h","o","r","e">>,
       <<"F","i","n","d","T","a","s","k">>,
       <<"G","e","t","M","s","g">>,
       <<"P","u","t","M","s","g">>,
       <<"O","b","t","a","i","n","S","e","m","a","p","h","o","r","e">>,
       <<"R","e","l","e","a","s","e","S","e","m","a","p","h","o","r","e">>,
       <<"A","l","l","o","c","M","e","m">> >>

SysTasks ==
    {"t1", "t2"}

Children ==
    {"p1", "p2"}

Tasks ==
    SysTasks \cup Children

ProcSlots ==
    {0, 1}

Clients ==
    {1, 2}

PatchIds ==
    1 .. FUNC_TABLE_SIZE

Slots ==
    0 .. (RingCap - 1)

(* ---------------- strings (sequences of one-character strings) ------- *)

UpperCase ==
    <<"A","B","C","D","E","F","G","H","I","J","K","L","M",
      "N","O","P","Q","R","S","T","U","V","W","X","Y","Z">>

LowerCase ==
    <<"a","b","c","d","e","f","g","h","i","j","k","l","m",
      "n","o","p","q","r","s","t","u","v","w","x","y","z">>

tolower(ch) ==
    IF \E i \in 1 .. 26 : UpperCase[i] = ch
    THEN LowerCase[CHOOSE i \in 1 .. 26 : UpperCase[i] = ch]
    ELSE ch

LowerStr(s) ==
    [i \in 1 .. Len(s) |-> tolower(s[i])]

(* stricmp(a, b) == 0 *)
stricmp0(a, b) ==
    LowerStr(a) = LowerStr(b)

(* strnicmp(a, b, n) == 0, for b of length n *)
strnicmp0(a, b, n) ==
    /\ Len(a) >= n
    /\ LowerStr(SubSeq(a, 1, n)) = LowerStr(SubSeq(b, 1, n))

IsWs(ch) ==
    ch = " " \/ ch = "\t"

(* number of leading blanks of s *)
RECURSIVE SkipWs(_)
SkipWs(s) ==
    IF s # <<>> /\ IsWs(Head(s)) THEN 1 + SkipWs(Tail(s)) ELSE 0

(* number of leading non-blank characters of s, at most max *)
RECURSIVE TokenLen(_, _)
TokenLen(s, max) ==
    IF s # <<>> /\ ~IsWs(Head(s)) /\ max > 0
    THEN 1 + TokenLen(Tail(s), max - 1)
    ELSE 0

Drop(s, n) ==
    SubSeq(s, n + 1, Len(s))

(* stristr(haystack, needle) != NULL *)
stristr(haystack, needle) ==
    \/ needle = <<>>
    \/ \E start \in 1 .. Len(haystack) :
          /\ start + Len(needle) - 1 <= Len(haystack)
          /\ LowerStr(SubSeq(haystack, start, start + Len(needle) - 1))
               = LowerStr(needle)

(* ---------------- name lookup ---------------- *)

(* The func_table index (from 1) of the first entry named name, or -1. *)
find_patch_index_by_name(name) ==
    IF \E i \in PatchIds : stricmp0(name, func_table[i].func_name)
    THEN CHOOSE i \in PatchIds :
           /\ stricmp0(name, func_table[i].func_name)
           /\ \A j \in 1 .. (i - 1) : ~stricmp0(name, func_table[j].func_name)
    ELSE -1

(* The first func_table index with this lib_id and lvo, or 0 (NULL). *)
lookup_func(lib_id, lvo) ==
    IF \E i \in PatchIds : /\ func_table[i].lib_id = lib_id
                           /\ func_table[i].lvo_offset = lvo
    THEN CHOOSE i \in PatchIds :
           /\ func_table[i].lib_id = lib_id
           /\ func_table[i].lvo_offset = lvo
           /\ \A j \in 1 .. (i - 1) : ~(/\ func_table[j].lib_id = lib_id
                                       /\ func_table[j].lvo_offset = lvo)
    ELSE 0

(* Patch indices of the noise functions, in noise_func_names order. *)
NoisePatchIndices ==
    LET idx == [n \in 1 .. Len(noise_func_names) |->
                  find_patch_index_by_name(noise_func_names[n])]
    IN  SelectSeq(idx, LAMBDA i : i >= 1 /\ i <= FUNC_TABLE_SIZE)

(* ---------------- filters ---------------- *)

NoFilter ==
    [filter_lib_id |-> -1, filter_lvo |-> 0, filter_errors_only |-> 0,
     filter_procname |-> <<>>]

LibSuffixes ==
    << <<".","l","i","b","r","a","r","y">>,
       <<".","d","e","v","i","c","e">>,
       <<".","r","e","s","o","u","r","c","e">> >>

(* lname with the first matching library suffix stripped *)
StripSuffix(lname) ==
    LET hits == {k \in 1 .. Len(LibSuffixes) :
                   /\ Len(lname) > Len(LibSuffixes[k])
                   /\ stricmp0(Drop(lname, Len(lname) - Len(LibSuffixes[k])),
                               LibSuffixes[k])}
    IN  IF hits = {} THEN lname
        ELSE LET k == CHOOSE k \in hits : \A j \in hits : k <= j
             IN  SubSeq(lname, 1, Len(lname) - Len(LibSuffixes[k]))

LibFilterOf(lname) ==
    LET n == StripSuffix(lname)
    IN  IF \E i \in PatchIds : stricmp0(n, func_table[i].lib_name)
        THEN func_table[CHOOSE i \in PatchIds :
               /\ stricmp0(n, func_table[i].lib_name)
               /\ \A j \in 1 .. (i - 1) :
                     ~stricmp0(n, func_table[j].lib_name)].lib_id
        ELSE 255

RECURSIVE parse_filters_from(_, _)
parse_filters_from(args0, ts) ==
    LET args == Drop(args0, SkipWs(args0))
    IN  IF args = <<>> THEN ts
        ELSE IF strnicmp0(args, <<"L","I","B","=">>, 4)
        THEN LET rest == Drop(args, 4)
                 llen == TokenLen(rest, 31)
             IN  parse_filters_from(Drop(rest, llen),
                   [ts EXCEPT !.filter_lib_id =
                                 LibFilterOf(SubSeq(rest, 1, llen))])
        ELSE IF strnicmp0(args, <<"F","U","N","C","=">>, 5)
        THEN LET rest == Drop(args, 5)
                 flen == TokenLen(rest, 31)
                 fi == find_patch_index_by_name(SubSeq(rest, 1, flen))
             IN  parse_filters_from(Drop(rest, flen),
                   IF fi >= 1
                   THEN [ts EXCEPT !.filter_lvo = func_table[fi].lvo_offset,
                                   !.filter_lib_id = func_table[fi].lib_id]
                   ELSE [ts EXCEPT !.filter_lvo = 1])
        ELSE IF strnicmp0(args, <<"P","R","O","C","=">>, 5)
        THEN LET rest == Drop(args, 5)
                 plen == TokenLen(rest, 63)
             IN  parse_filters_from(Drop(rest, plen),
                   [ts EXCEPT !.filter_procname = SubSeq(rest, 1, plen)])
        ELSE IF strnicmp0(args, <<"E","R","R","O","R","S">>, 6)
        THEN parse_filters_from(Drop(args, 6),
                   [ts EXCEPT !.filter_errors_only = 1])
        ELSE parse_filters_from(Drop(args, TokenLen(args, Len(args))), ts)

parse_filters(args) ==
    parse_filters_from(args, NoFilter)

(* task_name without a leading "[N] " CLI prefix *)
BareName(task_name) ==
    IF task_name # <<>> /\ task_name[1] = "["
       /\ \E k \in 1 .. Len(task_name) : task_name[k] = "]"
    THEN LET k == CHOOSE k \in 1 .. Len(task_name) :
                    /\ task_name[k] = "]"
                    /\ \A j \in 1 .. (k - 1) : task_name[j] # "]"
         IN  IF k + 1 <= Len(task_name) /\ task_name[k + 1] = " "
             THEN Drop(task_name, k + 1)
             ELSE task_name
    ELSE task_name

(* (LONG)retval < 0; a ULONG is held here as its two's-complement value *)
IsNegative32(v) ==
    v < 0

(* The ERRORS part of trace_filter_match: TRUE when the event passes. *)
ErrorsPass(lib_id, lvo, retval) ==
    LET fe == lookup_func(lib_id, lvo)
    IN  IF fe = 0 THEN TRUE
        ELSE LET ec == func_table[fe].error_check
             IN  IF ec = ERR_CHECK_VOID THEN FALSE
                 ELSE IF ec = ERR_CHECK_NULL THEN retval = 0
                 ELSE IF ec = ERR_CHECK_NZERO THEN retval # 0
                 ELSE IF ec = ERR_CHECK_ANY THEN TRUE
                 ELSE IF ec = ERR_CHECK_NONE THEN FALSE
                 ELSE IF ec = ERR_CHECK_RC THEN retval # 0
                 ELSE IF ec = ERR_CHECK_NEGATIVE THEN IsNegative32(retval)
                 ELSE TRUE

(* ts: the filter fields; lib_id, lvo, retval: the event's fields *)
trace_filter_match(ts, lib_id, lvo, retval, task_name) ==
    /\ ~(ts.filter_lib_id >= 0 /\ lib_id # ts.filter_lib_id)
    /\ ~(ts.filter_lvo # 0 /\ lvo # ts.filter_lvo)
    /\ (ts.filter_procname # <<>>
          => stristr(BareName(task_name), ts.filter_procname))
    /\ (ts.filter_errors_only = 1 => ErrorsPass(lib_id, lvo, retval))


(* ---------------- what a filter line asks for ---------------- *)

NothingWanted ==
    [libs |-> {}, funcs |-> {}, procs |-> {}, errors |-> FALSE]

(* The blank-separated tokens of a filter line, by keyword: the LIB=,    *)
(* FUNC= and PROC= values and whether ERRORS is among them.              *)
RECURSIVE WantedFrom(_, _)
WantedFrom(args0, w) ==
    LET args == Drop(args0, SkipWs(args0))
        n == TokenLen(args, Len(args))
        tok == SubSeq(args, 1, n)
    IN  IF args = <<>> THEN w
        ELSE WantedFrom(Drop(args, n),
               IF strnicmp0(tok, <<"L","I","B","=">>, 4)
               THEN [w EXCEPT !.libs = @ \cup {Drop(tok, 4)}]
               ELSE IF strnicmp0(tok, <<"F","U","N","C","=">>, 5)
               THEN [w EXCEPT !.funcs = @ \cup {Drop(tok, 5)}]
               ELSE IF strnicmp0(tok, <<"P","R","O","C","=">>, 5)
               THEN [w EXCEPT !.procs = @ \cup {Drop(tok, 5)}]
               ELSE IF stricmp0(tok, <<"E","R","R","O","R","S">>)
               THEN [w EXCEPT !.errors = TRUE]
               ELSE w)

Wanted(args) ==
    WantedFrom(args, NothingWanted)

(* LIB=x names the library lib_name: x is its short name, alone or with  *)
(* one of the library suffixes.                                          *)
NamesLibrary(x, lib_name) ==
    \/ stricmp0(x, lib_name)
    \/ \E k \in 1 .. Len(LibSuffixes) : stricmp0(x, lib_name \o LibSuffixes[k])

(* The event of function f (a func_table index) by task task_name with   *)
(* return value retval matches every filter of w.                        *)
MatchesAll(w, f, retval, task_name) ==
    /\ \A x \in w.libs : NamesLibrary(x, func_table[f].lib_name)
    /\ \A x \in w.funcs : stricmp0(x, func_table[f].func_name)
    /\ \A x \in w.procs : stristr(BareName(task_name), x)
    /\ (w.errors => ErrorsPass(func_table[f].lib_id,
                               func_table[f].lvo_offset, retval))

(* ---------------- the loader's function tables ---------------- *)

(* exec_funcs[] of the loader: name and LVO of each exec.library       *)
(* function, in installation order                                     *)
exec_funcs ==
    <<
       [name |-> <<"F","i","n","d","P","o","r","t">>, lvo_offset |-> -390],
       [name |-> <<"F","i","n","d","R","e","s","i","d","e","n","t">>, lvo_offset |-> -96],
       [name |-> <<"F","i","n","d","S","e","m","a","p","h","o","r","e">>, lvo_offset |-> -594],
       [name |-> <<"F","i","n","d","T","a","s","k">>, lvo_offset |-> -294],
       [name |-> <<"O","p","e","n","D","e","v","i","c","e">>, lvo_offset |-> -444],
       [name |-> <<"O","p","e","n","L","i","b","r","a","r","y">>, lvo_offset |-> -552],
       [name |-> <<"O","p","e","n","R","e","s","o","u","r","c","e">>, lvo_offset |-> -498],
       [name |-> <<"G","e","t","M","s","g">>, lvo_offset |-> -372],
       [name |-> <<"P","u","t","M","s","g">>, lvo_offset |-> -366],
       [name |-> <<"O","b","t","a","i","n","S","e","m","a","p","h","o","r","e">>, lvo_offset |-> -564],
       [name |-> <<"R","e","l","e","a","s","e","S","e","m","a","p","h","o","r","e">>, lvo_offset |-> -570],
       [name |-> <<"A","l","l","o","c","M","e","m">>, lvo_offset |-> -198]
    >>

(* dos_funcs[] of the loader *)
dos_funcs ==
    <<
       [name |-> <<"O","p","e","n">>, lvo_offset |-> -30],
       [name |-> <<"C","l","o","s","e">>, lvo_offset |-> -36],
       [name |-> <<"L","o","c","k">>, lvo_offset |-> -84],
       [name |-> <<"D","e","l","e","t","e","F","i","l","e">>, lvo_offset |-> -72],
       [name |-> <<"E","x","e","c","u","t","e">>, lvo_offset |-> -222],
       [name |-> <<"G","e","t","V","a","r">>, lvo_offset |-> -906],
       [name |-> <<"F","i","n","d","V","a","r">>, lvo_offset |-> -918],
       [name |-> <<"L","o","a","d","S","e","g">>, lvo_offset |-> -150],
       [name |-> <<"N","e","w","L","o","a","d","S","e","g">>, lvo_offset |-> -768],
       [name |-> <<"C","r","e","a","t","e","D","i","r">>, lvo_offset |-> -120],
       [name |-> <<"M","a","k","e","L","i","n","k">>, lvo_offset |-> -444],
       [name |-> <<"R","e","n","a","m","e">>, lvo_offset |-> -78],
       [name |-> <<"R","u","n","C","o","m","m","a","n","d">>, lvo_offset |-> -504],
       [name |-> <<"S","e","t","V","a","r">>, lvo_offset |-> -900],
       [name |-> <<"D","e","l","e","t","e","V","a","r">>, lvo_offset |-> -912],
       [name |-> <<"S","y","s","t","e","m","T","a","g","L","i","s","t">>, lvo_offset |-> -606],
       [name |-> <<"A","d","d","D","o","s","E","n","t","r","y">>, lvo_offset |-> -678],
       [name |-> <<"C","u","r","r","e","n","t","D","i","r">>, lvo_offset |-> -126]
    >>

(* atrace_libs[]: the libraries in installation order *)
atrace_libs ==
    << [name |-> <<"e","x","e","c",".","l","i","b","r","a","r","y">>,
        funcs |-> exec_funcs, func_count |-> 12, lib_id |-> LIB_EXEC],
       [name |-> <<"d","o","s",".","l","i","b","r","a","r","y">>,
        funcs |-> dos_funcs, func_count |-> 18, lib_id |-> LIB_DOS] >>

atrace_lib_count ==
    2

AllLibs ==
    1 .. atrace_lib_count

(* find_patch_by_name of the loader: the running index through the     *)
(* functions of all libraries, counted from 1 here as PatchIds are;    *)
(* -1 when no name matches                                             *)
RECURSIVE LoaderSearch(_, _, _, _)
LoaderSearch(name, li, fi, idx) ==
    IF li > atrace_lib_count THEN -1
    ELSE IF fi > atrace_libs[li].func_count
    THEN LoaderSearch(name, li + 1, 1, idx)
    ELSE IF stricmp0(name, atrace_libs[li].funcs[fi].name) THEN idx
    ELSE LoaderSearch(name, li, fi + 1, idx + 1)

find_patch_by_name(name) ==
    LoaderSearch(name, 1, 1, 1)

(* do_install: total_patches, the sum of the func_count of all libraries *)
RECURSIVE TotalPatches(_)
TotalPatches(li) ==
    IF li > atrace_lib_count THEN 0
    ELSE atrace_libs[li].func_count + TotalPatches(li + 1)

(* a descriptor of the patch array as AllocMem(MEMF_CLEAR) leaves it *)
ClearPatch ==
    [lib_id |-> 0, lvo_offset |-> 0, filled |-> FALSE]

(* do_install step 5: the libraries in opened are opened and their     *)
(* functions' descriptors filled at patch_idx, which moves on by one   *)
(* per function; a library that cannot be opened is skipped and        *)
(* patch_idx stays                                                     *)
RECURSIVE InstallLib(_, _, _, _)
InstallLib(patches, opened, li, patch_idx) ==
    IF li > atrace_lib_count THEN patches
    ELSE IF li \notin opened
    THEN InstallLib(patches, opened, li + 1, patch_idx)
    ELSE LET lib == atrace_libs[li]
             filled == [k \in 1 .. TotalPatches(1) |->
                          IF k >= patch_idx /\ k < patch_idx + lib.func_count
                          THEN [lib_id |-> lib.lib_id,
                                lvo_offset |->
                                   lib.funcs[k - patch_idx + 1].lvo_offset,
                                filled |-> TRUE]
                          ELSE patches[k]]
         IN  InstallLib(filled, opened, li + 1, patch_idx + lib.func_count)

(* anchor->patches after an installation that opened the libraries in *)
(* opened                                                             *)
PatchArray ==
    [opened \in SUBSET AllLibs |->
        InstallLib([k \in 1 .. TotalPatches(1) |-> ClearPatch], opened, 1, 1)]
(* ---------------- state ---------------- *)

VARIABLES
    global_enable,    \* anchor->global_enable
    filter_task,      \* anchor->filter_task
    enabled,          \* patches[i].enabled
    ring_ptr,         \* anchor->ring: "ring" or NULL (freed)
    write_pos,        \* ring->write_pos
    read_pos,         \* ring->read_pos
    overflow,         \* ring->overflow
    entries,          \* ring entries
    event_sequence,   \* anchor->event_sequence
    events_consumed,  \* anchor->events_consumed
    use_count,        \* patches[i].use_count
    sem_excl,         \* anchor->sem held exclusively by the loader
    sem_shared,       \* anchor->sem held shared by the daemon
    pc,               \* per task: position inside the stub
    spatch,           \* per task: patch whose stub is running
    slot,             \* per task: reserved slot (d0/d2, entry pointer)
    sseq,             \* per task: sequence read at reservation (d3)
    retv,             \* per task: d0 after the original returned
    origCalls,        \* per task: calls of the original in this invocation
    calls,            \* stub invocations started so far
    dpc,              \* daemon: position inside the running handler
    pos,              \* daemon: local pos of the drain loop
    batch,            \* daemon: local batch of the drain loop
    line,             \* daemon: trace_line_buf (the formatted event)
    lock_cache,       \* daemon: lock-to-path cache entries
    lock_cache_next,  \* daemon: FIFO write index of the cache
    dci,              \* daemon: client index i of trace_check_run_completed
    run_ok,           \* daemon: run_client_ok of the final drain
    g_anchor,         \* daemon: cached anchor pointer ("anchor" or NULL)
    g_events_dropped, \* daemon: running total of dropped events
    clients,          \* daemon: per-client fd and trace_state
    procs,            \* daemon: tracked process slots
    next_proc_id,     \* daemon: id of the next tracked process
    lpc,              \* loader: position inside the running command
    lastSent,         \* history: per client, the last chunk sent to it
    lastSeq,          \* history: sequence of the last consumed entry
    prevSeq,          \* history: sequence of the entry consumed before it
    holder,           \* history: per slot, task holding its reservation
    ovfTotal,         \* history: increments of ring->overflow by stubs
    noticeSum,        \* history: sum of N over the OVERFLOW notices sent
    uaf,              \* history: a stub touched the ring after it was freed
    asked,            \* history: per client, the filters its command named
    lockPaths,        \* history: per client, lock -> path formatted in its session
    recovered,        \* history: the running final drain found read_pos >= capacity
    inst              \* loader: do_install's locals and the memory, semaphore list
                      \* and library vectors it changes

flagVars ==
    <<global_enable, filter_task, enabled>>

ringVars ==
    <<ring_ptr, write_pos, read_pos, overflow, entries>>

cntVars ==
    <<event_sequence, events_consumed, use_count>>

semVars ==
    <<sem_excl, sem_shared>>

stubVars ==
    <<pc, spatch, slot, sseq, retv, origCalls, calls>>

pollVars ==
    <<dpc, pos, batch, line, lock_cache, lock_cache_next, dci, run_ok>>

pollLocals ==
    <<pos, batch, line, lock_cache, lock_cache_next, dci, run_ok>>

dmnVars ==
    <<g_anchor, g_events_dropped, clients, procs, next_proc_id>>

histNoUaf ==
    <<lastSent, lastSeq, prevSeq, holder, ovfTotal, noticeSum, asked,
      lockPaths, recovered, inst>>

histVars ==
    <<lastSent, lastSeq, prevSeq, holder, ovfTotal, noticeSum, uaf, asked,
      lockPaths, recovered, inst>>

vars ==
    <<flagVars, ringVars, cntVars, semVars, stubVars, pollVars, dmnVars, lpc,
      histVars>>

(* ---------------- data ---------------- *)

(* A cleared ring entry (AllocMem MEMF_CLEAR).  func stands for the pair  *)
(* lib_id/lvo_offset (a func_table index, 0 = both zero); args stands for *)
(* the captured args, arg_count and string_data, tagged 1 + the sequence  *)
(* of the reservation that wrote them.                                    *)
ClearEntry ==
    [valid |-> 0, sequence |-> 0, func |-> 0, caller_task |-> NULL,
     args |-> 0, retval |-> 0]

EvLibId(e) ==
    IF e.func = 0 THEN 0 ELSE func_table[e.func].lib_id

EvLvo(e) ==
    IF e.func = 0 THEN 0 ELSE func_table[e.func].lvo_offset

NoLine ==
    [sequence |-> 0, func |-> 0, caller_task |-> NULL, args |-> 0,
     path |-> <<>>, retval |-> 0, status |-> "-"]

(* A tracked_proc slot that was never used. *)
FreeProc ==
    [id |-> 0, status |-> PROC_EXITED, task |-> NULL, completed |-> 0,
     rc |-> 0]

NothingSent ==
    [kind |-> "none"]

(* The blocks do_install allocates: anchor, the ring with its entries, *)
(* the patch array and the copy of the semaphore name.                *)
Blocks ==
    {"anchor", "ring", "patches", "sem_name"}

(* After a complete installation by the loader's first run. *)
Installed ==
    [attempt |-> 1,
     allocated |-> {<<b, 1>> : b \in Blocks},
     published |-> TRUE,
     opened |-> AllLibs,
     patched |-> PatchIds,
     start_disabled |-> FALSE,
     funcs |-> <<>>]

IdleClient ==
    [fd |-> 1, active |-> 0, mode |-> TRACE_MODE_START,
     run_proc_slot |-> -1, run_task_ptr |-> NULL, run_start_seq |-> 0,
     noise_saved |-> 0, noise_saved_enabled |-> <<>>, filter |-> NoFilter,
     tail_active |-> 0, recv_buf |-> <<>>]

(* Names the task-name cache resolves the model's tasks to. *)
TaskNames ==
    [t \in Tasks |->
       IF t = "t1" THEN <<"[","1","]"," ","S","h","e","l","l">>
       ELSE IF t = "t2" THEN <<"w","o","r","k","b","e","n","c","h">>
       ELSE <<"l","i","s","t">>]

resolve_task_name(task_ptr) ==
    IF task_ptr = NULL THEN <<"<","n","u","l","l",">">>
    ELSE TaskNames[task_ptr]

trace_any_active ==
    \E i \in Clients : clients[i].fd >= 0 /\ clients[i].active = 1

(* ---------------- the stub ---------------- *)

(* A task can enter a stub while it exists: a system task, or a process *)
(* created by TRACE RUN whose command has not returned yet.             *)
TaskRuns(t) ==
    \/ t \in SysTasks
    \/ \E s \in ProcSlots : /\ procs[s].task = t
                            /\ procs[s].status = PROC_RUNNING
                            /\ procs[s].completed = 0

(* A store through the entry pointer the stub computed from the         *)
(* hard-coded RING_ENTRIES_ADDR: after FreeMem it lands in freed memory. *)
StoreEntry(t, e) ==
    /\ entries' = IF ring_ptr = NULL THEN entries
                  ELSE [entries EXCEPT ![slot[t]] = e]
    /\ uaf' = (uaf \/ ring_ptr = NULL)

(* jsr into the patched vector; tst.l OFS_ENABLED(a5); beq .disabled *)
StubCheckEnabled(t, p) ==
    /\ pc[t] = "idle"
    /\ TaskRuns(t)
    /\ calls < MaxCalls
    /\ calls' = calls + 1
    /\ spatch' = [spatch EXCEPT ![t] = p]
    /\ origCalls' = [origCalls EXCEPT ![t] = 0]
    /\ pc' = [pc EXCEPT ![t] = IF enabled[p] = 0 THEN "disabled"
                                ELSE "tst_global"]
    /\ UNCHANGED <<flagVars, ringVars, cntVars, semVars, slot, sseq, retv,
                   pollVars, dmnVars, lpc, histVars>>

(* a stub generated without the beq after the global_enable test *)
StubCheckGlobalNoBranch(t) ==
    /\ pc[t] = "tst_global"
    /\ pc' = [pc EXCEPT ![t] = "tst_filter"]
    /\ UNCHANGED <<flagVars, ringVars, cntVars, semVars, spatch, slot, sseq,
                   retv, origCalls, calls, pollVars, dmnVars, lpc, histVars>>

(* tst.l OFS_GLOBAL_ENABLE(a5); beq .disabled *)
StubCheckGlobal(t) ==
    /\ pc[t] = "tst_global"
    /\ pc' = [pc EXCEPT ![t] = IF global_enable = 0 THEN "disabled"
                                ELSE "tst_filter"]
    /\ UNCHANGED <<flagVars, ringVars, cntVars, semVars, spatch, slot, sseq,
                   retv, origCalls, calls, pollVars, dmnVars, lpc, histVars>>

(* tst.l OFS_FILTER_TASK(a5); beq.s .no_filter *)
StubTestFilter(t) ==
    /\ pc[t] = "tst_filter"
    /\ pc' = [pc EXCEPT ![t] = IF filter_task = NULL THEN "reserve"
                                ELSE "cmp_filter"]
    /\ UNCHANGED <<flagVars, ringVars, cntVars, semVars, spatch, slot, sseq,
                   retv, origCalls, calls, pollVars, dmnVars, lpc, histVars>>

(* cmpa.l OFS_FILTER_TASK(a5), a6; bne .disabled *)
StubCompareFilter(t) ==
    /\ pc[t] = "cmp_filter"
    /\ pc' = [pc EXCEPT ![t] = IF filter_task # t THEN "disabled"
                                ELSE "reserve"]
    /\ UNCHANGED <<flagVars, ringVars, cntVars, semVars, spatch, slot, sseq,
                   retv, origCalls, calls, pollVars, dmnVars, lpc, histVars>>

(* a reservation that does not compare next with read_pos *)
StubReserveUnchecked(t) ==
    /\ pc[t] = "reserve"
    /\ ring_ptr # NULL
    /\ write_pos' = IF write_pos + 1 < RingCap THEN write_pos + 1 ELSE 0
    /\ use_count' = [use_count EXCEPT ![spatch[t]] = @ + 1]
    /\ event_sequence' = event_sequence + 1
    /\ slot' = [slot EXCEPT ![t] = write_pos]
    /\ sseq' = [sseq EXCEPT ![t] = event_sequence]
    /\ holder' = [holder EXCEPT ![write_pos] = t]
    /\ pc' = [pc EXCEPT ![t] = "fill_hdr"]
    /\ UNCHANGED <<flagVars, ring_ptr, read_pos, overflow, entries,
                   events_consumed, semVars, spatch, retv, origCalls, calls,
                   pollVars, dmnVars, lpc, lastSent, lastSeq, prevSeq,
                   ovfTotal, noticeSum, uaf, asked, lockPaths, recovered,
                   inst>>

(* Disable() ... Enable(): slot reservation, or the overflow count *)
StubReserve(t) ==
    /\ pc[t] = "reserve"
    /\ ring_ptr # NULL
    /\ LET next == IF write_pos + 1 < RingCap THEN write_pos + 1 ELSE 0
       IN  IF next = read_pos
           THEN /\ overflow' = overflow + 1
                /\ ovfTotal' = ovfTotal + 1
                /\ pc' = [pc EXCEPT ![t] = "overflow"]
                /\ UNCHANGED <<write_pos, use_count, event_sequence, slot,
                               sseq, holder>>
           ELSE /\ write_pos' = next
                /\ use_count' = [use_count EXCEPT ![spatch[t]] = @ + 1]
                /\ event_sequence' = event_sequence + 1
                /\ slot' = [slot EXCEPT ![t] = write_pos]
                /\ sseq' = [sseq EXCEPT ![t] = event_sequence]
                /\ holder' = [holder EXCEPT ![write_pos] = t]
                /\ pc' = [pc EXCEPT ![t] = "fill_hdr"]
                /\ UNCHANGED <<overflow, ovfTotal>>
    /\ UNCHANGED <<flagVars, ring_ptr, read_pos, entries, events_consumed,
                   semVars, spatch, retv, origCalls, calls, pollVars,
                   dmnVars, lpc, lastSent, lastSeq, prevSeq, noticeSum, uaf, asked,
                   lockPaths, recovered, inst>>

(* The same instructions once anchor->ring is NULL: write_pos, capacity *)
(* and read_pos are read through a null pointer, so either branch may   *)
(* be taken and d0 may be any slot index; the patch and the anchor are  *)
(* still allocated.                                                     *)
StubReserveFreed(t, ovf, s) ==
    /\ pc[t] = "reserve"
    /\ ring_ptr = NULL
    /\ uaf' = TRUE
    /\ IF ovf
       THEN /\ pc' = [pc EXCEPT ![t] = "overflow"]
            /\ UNCHANGED <<use_count, event_sequence, slot, sseq>>
       ELSE /\ use_count' = [use_count EXCEPT ![spatch[t]] = @ + 1]
            /\ event_sequence' = event_sequence + 1
            /\ slot' = [slot EXCEPT ![t] = s]
            /\ sseq' = [sseq EXCEPT ![t] = event_sequence]
            /\ pc' = [pc EXCEPT ![t] = "fill_hdr"]
    /\ UNCHANGED <<flagVars, ringVars, events_consumed, semVars, spatch,
                   retv, origCalls, calls, pollVars, dmnVars, lpc, histNoUaf>>

(* entry->sequence, lib_id, lvo_offset, caller_task *)
StubFillHeader(t) ==
    /\ pc[t] = "fill_hdr"
    /\ StoreEntry(t, [entries[slot[t]] EXCEPT !.sequence = sseq[t],
                                              !.func = spatch[t],
                                              !.caller_task = t])
    /\ pc' = [pc EXCEPT ![t] = "fill_args"]
    /\ UNCHANGED <<flagVars, ring_ptr, write_pos, read_pos, overflow,
                   cntVars, semVars, spatch, slot, sseq, retv, origCalls,
                   calls, pollVars, dmnVars, lpc, histNoUaf>>

(* variable region: args[i], arg_count, string_data *)
StubFillArgs(t) ==
    /\ pc[t] = "fill_args"
    /\ StoreEntry(t, [entries[slot[t]] EXCEPT !.args = sseq[t] + 1])
    /\ pc' = [pc EXCEPT ![t] = "set_valid"]
    /\ UNCHANGED <<flagVars, ring_ptr, write_pos, read_pos, overflow,
                   cntVars, semVars, spatch, slot, sseq, retv, origCalls,
                   calls, pollVars, dmnVars, lpc, histNoUaf>>

(* move.b #1, (a5): entry->valid = 1 before the trampoline *)
StubSetValid(t) ==
    /\ pc[t] = "set_valid"
    /\ StoreEntry(t, [entries[slot[t]] EXCEPT !.valid = 1])
    /\ pc' = [pc EXCEPT ![t] = "orig"]
    /\ UNCHANGED <<flagVars, ring_ptr, write_pos, read_pos, overflow,
                   cntVars, semVars, spatch, slot, sseq, retv, origCalls,
                   calls, pollVars, dmnVars, lpc, histNoUaf>>

(* trampoline: the original function runs and returns r in d0 *)
StubCallOriginal(t, r) ==
    /\ pc[t] = "orig"
    /\ retv' = [retv EXCEPT ![t] = r]
    /\ origCalls' = [origCalls EXCEPT ![t] = @ + 1]
    /\ pc' = [pc EXCEPT ![t] = "post_call"]
    /\ UNCHANGED <<flagVars, ringVars, cntVars, semVars, spatch, slot, sseq,
                   calls, pollVars, dmnVars, lpc, histVars>>

(* .post_call: move.l d0, 28(a0); move.b #1, (a0) *)
StubPostCall(t) ==
    /\ pc[t] = "post_call"
    /\ StoreEntry(t, [entries[slot[t]] EXCEPT !.retval = retv[t],
                                              !.valid = 1])
    /\ pc' = [pc EXCEPT ![t] = "post_dec"]
    /\ UNCHANGED <<flagVars, ring_ptr, write_pos, read_pos, overflow,
                   cntVars, semVars, spatch, slot, sseq, retv, origCalls,
                   calls, pollVars, dmnVars, lpc, histNoUaf>>

(* a post-call handler without the subq.l on use_count *)
StubPostDecMissing(t) ==
    /\ pc[t] = "post_dec"
    /\ pc' = [pc EXCEPT ![t] = "idle"]
    /\ UNCHANGED <<flagVars, ringVars, cntVars, semVars, spatch, slot, sseq,
                   retv, origCalls, calls, pollVars, dmnVars, lpc, histVars>>

(* subq.l #1, OFS_USE_COUNT(a0); rts *)
StubPostDec(t) ==
    /\ pc[t] = "post_dec"
    /\ use_count' = [use_count EXCEPT ![spatch[t]] = @ - 1]
    /\ pc' = [pc EXCEPT ![t] = "idle"]
    /\ UNCHANGED <<flagVars, ringVars, event_sequence, events_consumed,
                   semVars, spatch, slot, sseq, retv, origCalls, calls,
                   pollVars, dmnVars, lpc, histVars>>

(* .disabled and the tail of .overflow: tail-call the original *)
StubTailCall(t) ==
    /\ pc[t] \in {"disabled", "overflow"}
    /\ origCalls' = [origCalls EXCEPT ![t] = @ + 1]
    /\ pc' = [pc EXCEPT ![t] = "idle"]
    /\ UNCHANGED <<flagVars, ringVars, cntVars, semVars, spatch, slot, sseq,
                   retv, calls, pollVars, dmnVars, lpc, histVars>>

(* The stub of task t up to the call of the original function (or the  *)
(* tail call of the pass-through and overflow paths); ps: the patched   *)
(* functions task t calls.                                              *)
StubPrefix(t, ps) ==
    \/ \E p \in ps : StubCheckEnabled(t, p)
    \/ StubCheckGlobal(t)
    \/ StubTestFilter(t)
    \/ StubReserve(t)
    \/ StubFillHeader(t)
    \/ StubFillArgs(t)
    \/ StubSetValid(t)
    \/ StubTailCall(t)

(* The same where a TRACE RUN can have set filter_task. *)
StubEnter(t, ps) ==
    \/ StubPrefix(t, ps)
    \/ StubCompareFilter(t)

(* The original function returns one of rs, then the post-call handler. *)
StubReturn(t, rs) ==
    \/ \E r \in rs : StubCallOriginal(t, r)
    \/ StubPostCall(t)
    \/ StubPostDec(t)

(* ---------------- the daemon: helpers ---------------- *)

(* The daemon-visible state a handler threads through its client loop. *)
DState ==
    [clients |-> clients, enabled |-> enabled, filter_task |-> filter_task,
     sent |-> lastSent]

RECURSIVE RestoreNoise(_, _, _)
RestoreNoise(en, saved, ni) ==
    IF ni > Len(saved) THEN en
    ELSE RestoreNoise([en EXCEPT ![NoisePatchIndices[ni]] = saved[ni]],
                      saved, ni + 1)

(* trace_run_cleanup(c) for client i, with the daemon's anchor pointer ga *)
trace_run_cleanup(st, i, ga) ==
    LET c == st.clients[i]
        idle == [c EXCEPT !.active = 0, !.mode = TRACE_MODE_START,
                          !.run_proc_slot = -1, !.run_task_ptr = NULL]
    IN  IF c.noise_saved = 1 /\ ga # NULL
        THEN [st EXCEPT
                !.enabled = RestoreNoise(st.enabled, c.noise_saved_enabled, 1),
                !.filter_task = IF ATRACE_VERSION >= 2 THEN NULL ELSE @,
                !.clients = [@ EXCEPT ![i] = [idle EXCEPT !.noise_saved = 0]]]
        ELSE IF /\ ga # NULL /\ ATRACE_VERSION >= 2
                /\ c.run_task_ptr # NULL
                /\ st.filter_task = c.run_task_ptr
        THEN [st EXCEPT !.filter_task = NULL,
                        !.clients = [@ EXCEPT ![i] = idle]]
        ELSE [st EXCEPT !.clients = [@ EXCEPT ![i] = idle]]

(* What a client receives when trace_line_buf ln is sent to it. *)
EventChunk(c, ln) ==
    [kind |-> "event", sequence |-> ln.sequence, func |-> ln.func,
     caller_task |-> ln.caller_task, args |-> ln.args, retval |-> ln.retval,
     mode |-> c.mode, run_task_ptr |-> c.run_task_ptr,
     run_start_seq |-> c.run_start_seq]

(* Does the poll loop send the event in entry ev to client c? *)
PollWants(c, ev) ==
    /\ c.fd >= 0
    /\ c.active = 1
    /\ (c.mode = TRACE_MODE_RUN
          => /\ ev.caller_task = c.run_task_ptr
             /\ ~(ev.sequence < c.run_start_seq))
    /\ trace_filter_match(c.filter, EvLibId(ev), EvLvo(ev), ev.retval,
                          resolve_task_name(ev.caller_task))

(* a send failure that closes the connection without trace_run_cleanup *)
SendEventNoCleanup(st, i, ln, fails) ==
    IF i \in fails
    THEN [st EXCEPT !.clients = [@ EXCEPT ![i] = [@ EXCEPT !.fd = -1]]]
    ELSE [st EXCEPT !.sent = [@ EXCEPT ![i] = EventChunk(st.clients[i], ln)]]

(* send_trace_data_chunk to client i: delivered, or the send fails and   *)
(* the client is cleaned up and closed.                                  *)
SendEvent(st, i, ln, fails) ==
    IF i \in fails
    THEN LET s2 == trace_run_cleanup(st, i, g_anchor)
         IN  [s2 EXCEPT !.clients = [@ EXCEPT ![i] = [@ EXCEPT !.fd = -1]]]
    ELSE [st EXCEPT !.sent = [@ EXCEPT ![i] = EventChunk(st.clients[i], ln)]]

(* the broadcast loop of trace_poll_events, clients i .. MAX_CLIENTS *)
RECURSIVE Broadcast(_, _, _, _, _, _)
Broadcast(st, i, skip, ev, ln, fails) ==
    IF i \notin Clients THEN st
    ELSE Broadcast(IF i # skip /\ PollWants(st.clients[i], ev)
                   THEN SendEvent(st, i, ln, fails) ELSE st,
                   i + 1, skip, ev, ln, fails)

(* "# ATRACE SHUTDOWN" to every active client, with trace_run_cleanup *)
RECURSIVE ShutdownSessions(_, _)
ShutdownSessions(st, i) ==
    IF i \notin Clients THEN st
    ELSE ShutdownSessions(
           IF st.clients[i].fd >= 0 /\ st.clients[i].active = 1
           THEN trace_run_cleanup(
                  [st EXCEPT !.sent = [@ EXCEPT ![i] = [kind |-> "shutdown"]]],
                  i, g_anchor)
           ELSE st,
           i + 1)

ApplyDState(st) ==
    /\ clients' = st.clients
    /\ enabled' = st.enabled
    /\ filter_task' = st.filter_task
    /\ lastSent' = st.sent


(* ---------------- the daemon: lock-to-path cache ---------------- *)

(* Lock values (BPTRs) and paths of the traced Lock and CreateDir calls *)
LockVals ==
    {4, 8}

Paths ==
    {<<"a">>, <<"b">>}

(* per lock value, no path formatted yet *)
NoPaths ==
    [l \in LockVals |-> <<>>]

(* lock_cache_clear: memset(lock_cache, 0, ..) *)
lock_cache_clear ==
    [k \in 0 .. LOCK_CACHE_SIZE - 1 |-> [lock_val |-> 0, path |-> <<>>]]

(* lock_cache_add: FIFO write of (lock_val, the first 63 characters) *)
lock_cache_add(cache, next, lock_val, path) ==
    IF lock_val = 0 \/ path = <<>>
    THEN [cache |-> cache, next |-> next]
    ELSE [cache |-> [cache EXCEPT ![next] =
                       [lock_val |-> lock_val,
                        path |-> IF Len(path) > 63 THEN SubSeq(path, 1, 63)
                                 ELSE path]],
          next |-> (next + 1) % LOCK_CACHE_SIZE]

(* lock_cache_lookup: the first entry in index order, or no path *)
lock_cache_lookup(cache, lock_val) ==
    IF lock_val = 0 \/ ~\E k \in DOMAIN cache : cache[k].lock_val = lock_val
    THEN <<>>
    ELSE cache[CHOOSE k \in DOMAIN cache :
                 /\ cache[k].lock_val = lock_val
                 /\ \A j \in DOMAIN cache :
                       cache[j].lock_val = lock_val => k <= j].path

(* Is entry ev a Lock or a CreateDir event? *)
IsLockEvent(ev) ==
    /\ ev.func \in 1 .. FUNC_TABLE_SIZE
    /\ func_table[ev.func].lib_id = LIB_DOS
    /\ func_table[ev.func].lvo_offset \in {-84, -120}

(* trace_format_event, the cache after it: a Lock or CreateDir event   *)
(* with a non-zero return value and string_data is added               *)
lock_cache_after(ev, string_data) ==
    IF /\ IsLockEvent(ev)
       /\ ev.retval # 0
       /\ func_table[ev.func].has_string # 0
       /\ string_data # <<>>
    THEN lock_cache_add(lock_cache, lock_cache_next, ev.retval, string_data)
    ELSE [cache |-> lock_cache, next |-> lock_cache_next]

(* Is entry ev a CurrentDir event? *)
IsCurrentDir(ev) ==
    /\ ev.func \in 1 .. FUNC_TABLE_SIZE
    /\ func_table[ev.func].lib_id = LIB_DOS
    /\ func_table[ev.func].lvo_offset = -126

(* format_args for CurrentDir(lock): the path that is printed quoted   *)
(* in place of the lock; with no path the line shows "lock=NULL" or    *)
(* the lock as a number                                                *)
CurrentDirPath(ev) ==
    IF IsCurrentDir(ev) THEN lock_cache_lookup(lock_cache, ev.args)
    ELSE <<>>

(* format_retval: the status character of the line. fe is the index    *)
(* lookup_func returned (0: unknown function); rv is ev->retval, held   *)
(* as its two's-complement value, so srv is the same number.           *)
format_retval(fe, rv) ==
    IF fe = 0 THEN "-"
    ELSE LET rt == func_table[fe].result_type
         IN  IF rt = RET_VOID THEN "-"
             ELSE IF rt = RET_PTR THEN (IF rv = 0 THEN "E" ELSE "O")
             ELSE IF rt = RET_BOOL_DOS THEN (IF rv = 0 THEN "E" ELSE "O")
             ELSE IF rt = RET_NZERO_ERR THEN (IF rv = 0 THEN "O" ELSE "E")
             ELSE IF rt = RET_MSG_PTR THEN (IF rv = 0 THEN "-" ELSE "O")
             ELSE IF rt = RET_RC THEN (IF rv = 0 THEN "O" ELSE "E")
             ELSE IF rt = RET_LOCK THEN (IF rv = 0 THEN "E" ELSE "O")
             ELSE IF rt = RET_LEN THEN (IF rv = -1 THEN "E" ELSE "O")
             ELSE IF rt = RET_OLD_LOCK THEN "-"
             ELSE "-"
(* ---------------- the daemon: trace_poll_events ---------------- *)

(* Called from the event loop when a client is tracing; returns at once  *)
(* unless the anchor and its ring pointer are set.                       *)
PollEnter ==
    /\ dpc = "idle"
    /\ trace_any_active
    /\ g_anchor # NULL
    /\ ring_ptr # NULL
    /\ dpc' = "poll_sem"
    /\ UNCHANGED <<flagVars, ringVars, cntVars, semVars, stubVars,
                   pollLocals, dmnVars, lpc, histVars>>

(* The shutdown branch shared by both detections in trace_poll_events *)
PollShutdownCheck ==
    IF global_enable = 0
    THEN /\ ApplyDState(ShutdownSessions(DState, 1))
         /\ g_anchor' = NULL
         /\ g_events_dropped' = 0
    ELSE UNCHANGED <<clients, enabled, filter_task, lastSent, g_anchor,
                     g_events_dropped>>

(* AttemptSemaphoreShared fails: shutdown if global_enable == 0 *)
PollSemBusy ==
    /\ dpc = "poll_sem"
    /\ sem_excl
    /\ PollShutdownCheck
    /\ dpc' = "idle"
    /\ UNCHANGED <<global_enable, ringVars, cntVars, semVars, stubVars,
                   pollLocals, procs, next_proc_id, lpc, lastSeq, prevSeq, holder,
                   ovfTotal, noticeSum, uaf, asked,
                   lockPaths, recovered, inst>>

(* Semaphore obtained but the ring pointer is NULL: atrace was QUIT *)
PollRingGone ==
    /\ dpc = "poll_sem"
    /\ ~sem_excl
    /\ ring_ptr = NULL
    /\ PollShutdownCheck
    /\ dpc' = "idle"
    /\ UNCHANGED <<global_enable, ringVars, cntVars, semVars, stubVars,
                   pollLocals, procs, next_proc_id, lpc, lastSeq, prevSeq, holder,
                   ovfTotal, noticeSum, uaf, asked,
                   lockPaths, recovered, inst>>

(* Semaphore obtained: pos = ring->read_pos, with the corruption guard *)
PollObtain ==
    /\ dpc = "poll_sem"
    /\ ~sem_excl
    /\ ring_ptr # NULL
    /\ IF read_pos >= RingCap
       THEN /\ read_pos' = write_pos
            /\ dpc' = "idle"
            /\ UNCHANGED <<sem_shared, pos, batch>>
       ELSE /\ sem_shared' = 1
            /\ pos' = read_pos
            /\ batch' = 0
            /\ dpc' = "poll_loop"
            /\ UNCHANGED read_pos
    /\ UNCHANGED <<flagVars, ring_ptr, write_pos, overflow, entries, cntVars,
                   sem_excl, stubVars, line, lock_cache,
                   lock_cache_next, dci, run_ok, dmnVars, lpc,
                   histVars>>

(* while (batch < 64 && g_ring_entries[pos].valid) *)
PollTest ==
    /\ dpc = "poll_loop"
    /\ dpc' = IF batch < PollBatch /\ entries[pos].valid # 0
              THEN "poll_fmt" ELSE "poll_fin"
    /\ UNCHANGED <<flagVars, ringVars, cntVars, semVars, stubVars,
                   pollLocals, dmnVars, lpc, histVars>>

(* trace_format_event: the entry's fields as they are read into the line *)
FormatLine(e) ==
    [sequence |-> e.sequence, func |-> e.func, caller_task |-> e.caller_task,
     args |-> e.args, path |-> CurrentDirPath(e), retval |-> e.retval,
     status |-> format_retval(lookup_func(func_table[e.func].lib_id,
                                          func_table[e.func].lvo_offset),
                              e.retval)]

(* resolve_task_name and trace_format_event read the entry *)
PollFormat ==
    /\ dpc = "poll_fmt"
    /\ line' = FormatLine(entries[pos])
    /\ prevSeq' = lastSeq
    /\ lastSeq' = entries[pos].sequence
    /\ dpc' = "poll_send"
    /\ lock_cache' = lock_cache_after(entries[pos], <<>>).cache
    /\ lock_cache_next' = lock_cache_after(entries[pos], <<>>).next
    /\ UNCHANGED <<flagVars, ringVars, cntVars, semVars, stubVars, pos, batch,
                   dci, run_ok, dmnVars, lpc, lastSent, holder, ovfTotal,
                   noticeSum, uaf, asked, lockPaths, recovered, inst>>

(* the per-client loop: RUN and filter checks on the entry, then send *)
PollBroadcast(fails) ==
    /\ dpc = "poll_send"
    /\ ApplyDState(Broadcast(DState, 1, 0, entries[pos], line, fails))
    /\ dpc' = "poll_rel"
    /\ UNCHANGED <<global_enable, ringVars, cntVars, semVars, stubVars,
                   pollLocals, g_anchor, g_events_dropped, procs, next_proc_id, lpc,
                   lastSeq, prevSeq, holder, ovfTotal, noticeSum, uaf, asked,
                   lockPaths, recovered, inst>>

(* ev->valid = 0; pos = (pos + 1) % capacity; ring->read_pos = pos *)
PollRelease ==
    /\ dpc = "poll_rel"
    /\ entries' = [entries EXCEPT ![pos] = [@ EXCEPT !.valid = 0]]
    /\ pos' = (pos + 1) % RingCap
    /\ read_pos' = (pos + 1) % RingCap
    /\ batch' = batch + 1
    /\ holder' = [holder EXCEPT ![pos] = NULL]
    /\ dpc' = "poll_loop"
    /\ UNCHANGED <<flagVars, ring_ptr, write_pos, overflow, cntVars, semVars,
                   stubVars, line, lock_cache,
                   lock_cache_next, dci, run_ok, dmnVars, lpc, lastSent,
                   lastSeq, prevSeq, ovfTotal, noticeSum, uaf, asked,
                   lockPaths, recovered, inst>>

(* events_consumed += batch; the overflow report; ReleaseSemaphore *)
PollFinish ==
    /\ dpc = "poll_fin"
    /\ events_consumed' = events_consumed + batch
    /\ IF overflow > 0
       THEN /\ overflow' = 0
            /\ g_events_dropped' = g_events_dropped + overflow
            /\ noticeSum' = noticeSum + overflow
            /\ lastSent' = [i \in Clients |->
                  IF clients[i].fd >= 0 /\ clients[i].active = 1
                  THEN [kind |-> "overflow", n |-> overflow]
                  ELSE lastSent[i]]
       ELSE UNCHANGED <<overflow, g_events_dropped, noticeSum, lastSent>>
    /\ sem_shared' = 0
    /\ dpc' = "idle"
    /\ UNCHANGED <<flagVars, ring_ptr, write_pos, read_pos, entries,
                   event_sequence, use_count, sem_excl, stubVars, pollLocals,
                   g_anchor, clients, procs, next_proc_id, lpc, lastSeq, prevSeq, holder,
                   ovfTotal, uaf, asked,
                   lockPaths, recovered, inst>>

(* trace_poll_events with every send succeeding *)
PollStep ==
    \/ PollEnter
    \/ PollObtain
    \/ PollTest
    \/ PollFormat
    \/ PollBroadcast({})
    \/ PollRelease
    \/ PollFinish

(* ---------------- the daemon: TRACE START, STOP, disconnect ------------ *)

(* The filter part of a TRACE START or TRACE RUN line: what            *)
(* parse_filters makes of it, beside what the line names.              *)
FilterRequest(args) ==
    [filter |-> parse_filters(args), wanted |-> Wanted(args)]

NoFilterRequest ==
    FilterRequest(<<>>)

(* TRACE START with the filter line of req, dispatched on the client   *)
(* array cl that extract_command left                                  *)
trace_cmd_start_on(cl, i, req) ==
    /\ dpc = "idle"
    /\ cl[i].fd >= 0
    /\ cl[i].tail_active = 0
    /\ cl[i].active = 0
    /\ g_anchor # NULL
    /\ global_enable # 0
    /\ clients' = [cl EXCEPT ![i] =
                     [@ EXCEPT !.filter = req.filter, !.active = 1]]
    /\ lastSent' = [lastSent EXCEPT ![i] = [kind |-> "ok"]]
    /\ asked' = [asked EXCEPT ![i] = req.wanted]
    /\ lock_cache' = lock_cache_clear
    /\ lock_cache_next' = 0
    /\ lockPaths' = [lockPaths EXCEPT ![i] = NoPaths]
    /\ UNCHANGED <<flagVars, ringVars, cntVars, semVars, stubVars, dpc, pos,
                   batch, line, dci, run_ok,
                   g_anchor, g_events_dropped, procs, next_proc_id, lpc, lastSeq, prevSeq,
                   holder, ovfTotal, noticeSum, uaf, recovered, inst>>

(* TRACE START as the only line of a receive *)
trace_cmd_start(i, req) ==
    trace_cmd_start_on(clients, i, req)

(* trace_handle_input: the client sent STOP during the stream *)
TraceStop(i) ==
    /\ dpc = "idle"
    /\ clients[i].fd >= 0
    /\ clients[i].active = 1
    /\ ApplyDState(trace_run_cleanup(
          [DState EXCEPT !.sent = [@ EXCEPT ![i] = [kind |-> "end"]]],
          i, g_anchor))
    /\ UNCHANGED <<global_enable, ringVars, cntVars, semVars, stubVars,
                   pollVars, g_anchor, g_events_dropped, procs, next_proc_id, lpc, lastSeq,
                   prevSeq, holder, ovfTotal, noticeSum, uaf, asked,
                   lockPaths, recovered, inst>>

(* ---------------- the daemon: TRACE ENABLE / TRACE DISABLE ------------ *)

(* The blank-separated tokens of args, each cut to 31 characters as the *)
(* name[32] buffer of trace_cmd_enable and trace_cmd_disable does.       *)
RECURSIVE NameTokens(_)
NameTokens(args0) ==
    LET args == Drop(args0, SkipWs(args0))
        full == TokenLen(args, Len(args))
    IN  IF args = <<>> THEN <<>>
        ELSE <<SubSeq(args, 1, IF full >= 32 THEN 31 ELSE full)>>
               \o NameTokens(Drop(args, full))

(* find_patch_index_by_name of every token of args, in order *)
NameIndices(args) ==
    LET names == NameTokens(args)
    IN  [k \in 1 .. Len(names) |-> find_patch_index_by_name(names[k])]

(* a first pass that stops after the first name *)
FirstNameKnown(idx) ==
    idx = <<>> \/ idx[1] >= 0

(* first pass: every name is a known function *)
AllNamesKnown(idx) ==
    \A k \in 1 .. Len(idx) : idx[k] >= 0

(* second pass: patches[idx].enabled = v for every name *)
RECURSIVE SetEnabled(_, _, _, _)
SetEnabled(en, idx, k, v) ==
    IF k > Len(idx) THEN en
    ELSE SetEnabled([en EXCEPT ![idx[k]] = v], idx, k + 1, v)

(* A command client: connected and not streaming a trace. *)
CommandClient(i) ==
    /\ dpc = "idle"
    /\ clients[i].fd >= 0
    /\ clients[i].active = 0
    /\ g_anchor # NULL

(* TRACE ENABLE [funcs], idx = NameIndices(args): global when args *)
(* holds no name                                                   *)
trace_cmd_enable(i, idx) ==
    /\ CommandClient(i)
    /\ IF idx = <<>>
       THEN /\ global_enable' = 1
            /\ lastSent' = [lastSent EXCEPT ![i] = [kind |-> "ok"]]
            /\ UNCHANGED enabled
       ELSE IF ~AllNamesKnown(idx)
       THEN /\ lastSent' = [lastSent EXCEPT ![i] = [kind |-> "error"]]
            /\ UNCHANGED <<global_enable, enabled>>
       ELSE /\ enabled' = SetEnabled(enabled, idx, 1, 1)
            /\ lastSent' = [lastSent EXCEPT ![i] = [kind |-> "ok"]]
            /\ UNCHANGED global_enable
    /\ UNCHANGED <<filter_task, ringVars, cntVars, semVars, stubVars,
                   pollVars, dmnVars, lpc, lastSeq, prevSeq, holder, ovfTotal,
                   noticeSum, uaf, asked,
                   lockPaths, recovered, inst>>

(* TRACE DISABLE funcs, idx = NameIndices(args): per-function, *)
(* all-or-nothing                                              *)
trace_cmd_disable(i, idx) ==
    /\ CommandClient(i)
    /\ idx # <<>>
    /\ IF ~AllNamesKnown(idx)
       THEN /\ lastSent' = [lastSent EXCEPT ![i] = [kind |-> "error"]]
            /\ UNCHANGED enabled
       ELSE /\ enabled' = SetEnabled(enabled, idx, 1, 0)
            /\ lastSent' = [lastSent EXCEPT ![i] = [kind |-> "ok"]]
    /\ UNCHANGED <<global_enable, filter_task, ringVars, cntVars, semVars,
                   stubVars, pollVars, dmnVars, lpc, lastSeq, prevSeq, holder,
                   ovfTotal, noticeSum, uaf, asked,
                   lockPaths, recovered, inst>>

(* TRACE DISABLE: Disable(); global_enable = 0; Enable() *)
DisableGlobal(i) ==
    /\ CommandClient(i)
    /\ global_enable' = 0
    /\ dci' = i
    /\ dpc' = IF ring_ptr # NULL THEN "dis_clear" ELSE "dis_reply"
    /\ UNCHANGED <<filter_task, enabled, ringVars, cntVars, semVars,
                   stubVars, pos, batch, line, lock_cache,
                   lock_cache_next, run_ok, dmnVars, lpc,
                   histVars>>

(* the loop clearing valid on the slots from read_pos to write_pos *)
RECURSIVE ClearValid(_, _, _)
ClearValid(es, p, end) ==
    IF p = end THEN es
    ELSE ClearValid([es EXCEPT ![p] = [@ EXCEPT !.valid = 0]],
                    (p + 1) % RingCap, end)

(* The slots from r up to, not including, w in ring order. *)
Occupied(r, w) ==
    {s \in Slots : (s - r + RingCap) % RingCap < (w - r + RingCap) % RingCap}

DisableClear ==
    /\ dpc = "dis_clear"
    /\ entries' = ClearValid(entries, read_pos, write_pos)
    /\ dpc' = "dis_advance"
    /\ UNCHANGED <<flagVars, ring_ptr, write_pos, read_pos, overflow, cntVars,
                   semVars, stubVars, pollLocals, dmnVars, lpc, histVars>>

(* ring->read_pos = ring->write_pos *)
DisableAdvance ==
    /\ dpc = "dis_advance"
    /\ read_pos' = write_pos
    /\ holder' = [s \in Slots |->
                    IF s \in Occupied(read_pos, write_pos) THEN NULL
                    ELSE holder[s]]
    /\ dpc' = "dis_overflow"
    /\ UNCHANGED <<flagVars, ring_ptr, write_pos, overflow, entries, cntVars,
                   semVars, stubVars, pollLocals, dmnVars, lpc, lastSent,
                   lastSeq, prevSeq, ovfTotal, noticeSum, uaf, asked,
                   lockPaths, recovered, inst>>

(* if (ring->overflow > 0) g_events_dropped += overflow; overflow = 0 *)
DisableOverflow ==
    /\ dpc = "dis_overflow"
    /\ g_events_dropped' = g_events_dropped + overflow
    /\ overflow' = 0
    /\ dpc' = "dis_reply"
    /\ UNCHANGED <<flagVars, ring_ptr, write_pos, read_pos, entries, cntVars,
                   semVars, stubVars, pollLocals, g_anchor, clients, procs, next_proc_id,
                   lpc, histVars>>

(* send_ok; send_sentinel: the command has completed *)
DisableReply ==
    /\ dpc = "dis_reply"
    /\ lastSent' = [lastSent EXCEPT ![dci] = [kind |-> "ok"]]
    /\ dci' = 0
    /\ dpc' = "idle"
    /\ UNCHANGED <<flagVars, ringVars, cntVars, semVars, stubVars, pos, batch,
                   line, lock_cache, lock_cache_next, run_ok, dmnVars, lpc,
                   lastSeq, prevSeq, holder,
                   ovfTotal, noticeSum, uaf, asked,
                   lockPaths, recovered, inst>>

(* ---------------- the loader: ENABLE, DISABLE, QUIT ---------------- *)

AllDrained ==
    \A i \in PatchIds : use_count[i] = 0

(* do_enable(anchor, NULL) *)
do_enable ==
    /\ lpc = "idle"
    /\ global_enable' = 1
    /\ UNCHANGED <<filter_task, enabled, ringVars, cntVars, semVars,
                   stubVars, pollVars, dmnVars, lpc, histVars>>

(* do_disable(anchor, NULL), called for DISABLE or as step 1 of QUIT: *)
(* Disable(); global_enable = 0; Enable()                             *)
do_disable(quit) ==
    /\ lpc = "idle"
    /\ global_enable' = 0
    /\ lpc' = IF quit THEN "quit_drain" ELSE "drain"
    /\ UNCHANGED <<filter_task, enabled, ringVars, cntVars, semVars,
                   stubVars, pollVars, dmnVars, histVars>>

(* the wait loop sees every use_count at zero *)
DrainDone ==
    /\ lpc \in {"drain", "quit_drain"}
    /\ AllDrained
    /\ lpc' = IF lpc = "drain" THEN "idle" ELSE "quit_obtain"
    /\ UNCHANGED <<flagVars, ringVars, cntVars, semVars, stubVars, pollVars,
                   dmnVars, histVars>>

(* the wait loop gives up after its 50 polls, a use_count still raised *)
DrainTimeout ==
    /\ lpc \in {"drain", "quit_drain"}
    /\ ~AllDrained
    /\ lpc' = IF lpc = "drain" THEN "idle" ELSE "quit_obtain"
    /\ UNCHANGED <<flagVars, ringVars, cntVars, semVars, stubVars, pollVars,
                   dmnVars, histVars>>

(* do_quit: ObtainSemaphore blocks while the daemon holds it shared; *)
(* RemSemaphore then takes the name off the system list              *)
QuitObtain ==
    /\ lpc = "quit_obtain"
    /\ sem_shared = 0
    /\ sem_excl' = TRUE
    /\ inst' = [inst EXCEPT !.published = FALSE]
    /\ lpc' = "quit_free"
    /\ UNCHANGED <<flagVars, ringVars, cntVars, sem_shared, stubVars,
                   pollVars, dmnVars, lastSent, lastSeq, prevSeq, holder,
                   ovfTotal, noticeSum, uaf, asked, lockPaths, recovered>>

(* anchor->ring = NULL; FreeMem(ring, ring_size) *)
QuitFree ==
    /\ lpc = "quit_free"
    /\ ring_ptr' = NULL
    /\ lpc' = "quit_release"
    /\ UNCHANGED <<flagVars, write_pos, read_pos, overflow, entries, cntVars,
                   semVars, stubVars, pollVars, dmnVars, histVars>>

(* ReleaseSemaphore; the loader exits *)
QuitRelease ==
    /\ lpc = "quit_release"
    /\ sem_excl' = FALSE
    /\ lpc' = "gone"
    /\ UNCHANGED <<flagVars, ringVars, cntVars, sem_shared, stubVars,
                   pollVars, dmnVars, histVars>>

(* ---------------- the daemon: TRACE RUN ---------------- *)

(* The proc slot trace_cmd_run picks: the first unused one, else the   *)
(* oldest that is not running; -1 when the table is full.              *)
FindProcSlot ==
    IF \E s \in ProcSlots : procs[s].id = 0
    THEN CHOOSE s \in ProcSlots :
           procs[s].id = 0 /\ \A r \in ProcSlots : procs[r].id = 0 => s <= r
    ELSE IF \E s \in ProcSlots : procs[s].status # PROC_RUNNING
    THEN CHOOSE s \in ProcSlots :
           /\ procs[s].status # PROC_RUNNING
           /\ \A r \in ProcSlots : procs[r].status # PROC_RUNNING
                                     => procs[s].id <= procs[r].id
    ELSE -1

(* a TRACE RUN without the orphan test *)
OrphanedNever ==
    filter_task # NULL /\ FALSE

(* an orphan test that takes every set filter_task for an orphan *)
OrphanedAlways ==
    filter_task # NULL

(* filter_task is orphaned: set, and owned by no connected RUN client *)
Orphaned ==
    /\ filter_task # NULL
    /\ ~\E f \in Clients : /\ clients[f].fd >= 0
                           /\ clients[f].active = 1
                           /\ clients[f].mode = TRACE_MODE_RUN
                           /\ clients[f].run_task_ptr = filter_task

(* TRACE RUN filters -- command: process t is created under Forbid(),  *)
(* the stub filter is claimed if it is free, run_start_seq is captured. *)
trace_cmd_run_on(cl, i, t, args) ==
    /\ dpc = "idle"
    /\ cl[i].fd >= 0
    /\ cl[i].tail_active = 0
    /\ cl[i].active = 0
    /\ g_anchor # NULL
    /\ global_enable # 0
    /\ ~stristr(args, <<"P","R","O","C","=">>)
    /\ FindProcSlot >= 0
    /\ next_proc_id <= MaxRuns
    /\ ~TaskRuns(t)
    /\ pc[t] = "idle"
    /\ LET s == FindProcSlot
           ft == IF ATRACE_VERSION >= 2 /\ Orphaned THEN NULL
                 ELSE filter_task
           claim == ATRACE_VERSION >= 2 /\ ft = NULL
           saved == [n \in 1 .. Len(NoisePatchIndices) |->
                       enabled[NoisePatchIndices[n]]]
       IN  /\ procs' = [procs EXCEPT ![s] =
                          [id |-> next_proc_id, status |-> PROC_RUNNING,
                           task |-> t, completed |-> 0, rc |-> 0]]
           /\ next_proc_id' = next_proc_id + 1
           /\ enabled' = IF claim
                         THEN [p \in PatchIds |->
                                 IF \E n \in 1 .. Len(NoisePatchIndices) :
                                       NoisePatchIndices[n] = p
                                 THEN 1 ELSE enabled[p]]
                         ELSE enabled
           /\ filter_task' = IF claim THEN t ELSE ft
           /\ clients' = [cl EXCEPT ![i] =
                 [@ EXCEPT !.noise_saved = IF claim THEN 1 ELSE 0,
                           !.noise_saved_enabled =
                               IF claim THEN saved ELSE @,
                           !.run_start_seq = event_sequence,
                           !.filter = parse_filters(args),
                           !.mode = TRACE_MODE_RUN,
                           !.run_proc_slot = s,
                           !.run_task_ptr = t,
                           !.active = 1]]
           /\ lastSent' = [lastSent EXCEPT ![i] = [kind |-> "ok"]]
           /\ asked' = [asked EXCEPT ![i] = Wanted(args)]
    /\ lock_cache' = lock_cache_clear
    /\ lock_cache_next' = 0
    /\ lockPaths' = [lockPaths EXCEPT ![i] = NoPaths]
    /\ UNCHANGED <<global_enable, ringVars, cntVars, semVars, stubVars,
                   dpc, pos, batch, line, dci, run_ok, g_anchor, g_events_dropped, lpc, lastSeq,
                   prevSeq, holder, ovfTotal, noticeSum, uaf, recovered, inst>>

(* TRACE RUN as the only line of a receive *)
trace_cmd_run(i, t, args) ==
    trace_cmd_run_on(clients, i, t, args)

(* async_wrapper: the command has returned r; slot->rc, completed = 1 *)
ChildExit(t, r) ==
    /\ pc[t] = "idle"
    /\ \E s \in ProcSlots :
          /\ procs[s].task = t
          /\ procs[s].status = PROC_RUNNING
          /\ procs[s].completed = 0
          /\ procs' = [procs EXCEPT ![s] = [@ EXCEPT !.rc = r,
                                                   !.completed = 1]]
    /\ UNCHANGED <<flagVars, ringVars, cntVars, semVars, stubVars, pollVars,
                   g_anchor, g_events_dropped, clients, next_proc_id, lpc, histVars>>

(* exec_scan_completed: RUNNING and completed -> EXITED *)
exec_scan_completed ==
    /\ dpc = "idle"
    /\ \E s \in ProcSlots : procs[s].status = PROC_RUNNING
                            /\ procs[s].completed = 1
    /\ procs' = [s \in ProcSlots |->
                   IF procs[s].status = PROC_RUNNING /\ procs[s].completed = 1
                   THEN [procs[s] EXCEPT !.status = PROC_EXITED,
                                         !.completed = 0, !.task = NULL]
                   ELSE procs[s]]
    /\ UNCHANGED <<flagVars, ringVars, cntVars, semVars, stubVars, pollVars,
                   g_anchor, g_events_dropped, clients, next_proc_id, lpc, histVars>>

(* ---------------- the daemon: trace_check_run_completed ---------------- *)

(* a completion test without the test of the slot's status *)
RunCompletedEarly(i) ==
    /\ clients[i].fd >= 0
    /\ clients[i].active = 1
    /\ clients[i].mode = TRACE_MODE_RUN
    /\ clients[i].run_proc_slot >= 0

RunCompleted(i) ==
    /\ clients[i].fd >= 0
    /\ clients[i].active = 1
    /\ clients[i].mode = TRACE_MODE_RUN
    /\ clients[i].run_proc_slot >= 0
    /\ procs[clients[i].run_proc_slot].status = PROC_EXITED

(* the first client whose traced process has exited; the final drain   *)
(* starts if the ring is there and AttemptSemaphoreShared succeeds      *)
DrainBegin(i) ==
    /\ dpc = "idle"
    /\ RunCompleted(i)
    /\ \A j \in Clients : j < i => ~RunCompleted(j)
    /\ dci' = i
    /\ run_ok' = 1
    /\ IF g_anchor # NULL /\ ring_ptr # NULL /\ ~sem_excl
       THEN /\ sem_shared' = 1
            /\ read_pos' = IF read_pos >= RingCap THEN write_pos ELSE read_pos
            /\ pos' = IF read_pos >= RingCap THEN write_pos ELSE read_pos
            /\ recovered' = (read_pos >= RingCap)
            /\ batch' = 0
            /\ dpc' = "drain_loop"
       ELSE /\ dpc' = "drain_exit"
            /\ recovered' = FALSE
            /\ UNCHANGED <<sem_shared, read_pos, pos, batch>>
    /\ UNCHANGED <<flagVars, ring_ptr, write_pos, overflow, entries, cntVars,
                   sem_excl, stubVars, line, lock_cache,
                   lock_cache_next, dmnVars, lpc, lastSent, lastSeq, prevSeq,
                   holder, ovfTotal, noticeSum, uaf, asked, lockPaths, inst>>

(* while (batch < capacity && g_ring_entries[pos].valid) *)
DrainTest ==
    /\ dpc = "drain_loop"
    /\ dpc' = IF batch < RingCap /\ entries[pos].valid # 0
              THEN "drain_fmt" ELSE "drain_fin"
    /\ UNCHANGED <<flagVars, ringVars, cntVars, semVars, stubVars,
                   pollLocals, dmnVars, lpc, histVars>>

DrainFormat ==
    /\ dpc = "drain_fmt"
    /\ line' = FormatLine(entries[pos])
    /\ prevSeq' = lastSeq
    /\ lastSeq' = entries[pos].sequence
    /\ dpc' = "drain_send"
    /\ lock_cache' = lock_cache_after(entries[pos], <<>>).cache
    /\ lock_cache_next' = lock_cache_after(entries[pos], <<>>).next
    /\ UNCHANGED <<flagVars, ringVars, cntVars, semVars, stubVars, pos, batch,
                   dci, run_ok, dmnVars, lpc, lastSent, holder, ovfTotal,
                   noticeSum, uaf, asked, lockPaths, recovered, inst>>

(* Does the final drain send the event to the completing RUN client? *)
DrainWants(c, ev) ==
    /\ run_ok = 1
    /\ ev.caller_task = c.run_task_ptr
    /\ ev.sequence >= c.run_start_seq
    /\ trace_filter_match(c.filter, EvLibId(ev), EvLvo(ev), ev.retval,
                          resolve_task_name(ev.caller_task))

(* the RUN client first, then the broadcast to the other clients *)
DrainSend(fails) ==
    /\ dpc = "drain_send"
    /\ LET ev == entries[pos]
           wants == DrainWants(clients[dci], ev)
           st1 == IF wants /\ dci \notin fails
                  THEN [DState EXCEPT !.sent = [@ EXCEPT ![dci] =
                                         EventChunk(clients[dci], line)]]
                  ELSE DState
       IN  /\ run_ok' = IF wants /\ dci \in fails THEN 0 ELSE run_ok
           /\ ApplyDState(Broadcast(st1, 1, dci, ev, line, fails))
    /\ dpc' = "drain_rel"
    /\ UNCHANGED <<global_enable, ringVars, cntVars, semVars, stubVars, pos,
                   batch, line, lock_cache,
                   lock_cache_next, dci, g_anchor, g_events_dropped, procs, next_proc_id, lpc,
                   lastSeq, prevSeq, holder, ovfTotal, noticeSum, uaf, asked,
                   lockPaths, recovered, inst>>

DrainRelease ==
    /\ dpc = "drain_rel"
    /\ entries' = [entries EXCEPT ![pos] = [@ EXCEPT !.valid = 0]]
    /\ pos' = (pos + 1) % RingCap
    /\ read_pos' = (pos + 1) % RingCap
    /\ batch' = batch + 1
    /\ holder' = [holder EXCEPT ![pos] = NULL]
    /\ dpc' = "drain_loop"
    /\ UNCHANGED <<flagVars, ring_ptr, write_pos, overflow, cntVars, semVars,
                   stubVars, line, lock_cache,
                   lock_cache_next, dci, run_ok, dmnVars, lpc, lastSent,
                   lastSeq, prevSeq, ovfTotal, noticeSum, uaf, asked,
                   lockPaths, recovered, inst>>

(* events_consumed += batch; ReleaseSemaphore *)
DrainFinish ==
    /\ dpc = "drain_fin"
    /\ events_consumed' = events_consumed + batch
    /\ sem_shared' = 0
    /\ dpc' = "drain_exit"
    /\ UNCHANGED <<flagVars, ringVars, event_sequence, use_count, sem_excl,
                   stubVars, pollLocals, dmnVars, lpc, histVars>>

(* "# PROCESS EXITED rc=..", END and sentinel, or close; trace_run_cleanup *)
RunExitNotify ==
    /\ dpc = "drain_exit"
    /\ LET st1 == IF run_ok = 1
                  THEN [DState EXCEPT !.sent = [@ EXCEPT ![dci] =
                           [kind |-> "exited",
                            rc |-> procs[clients[dci].run_proc_slot].rc]]]
                  ELSE [DState EXCEPT !.clients = [@ EXCEPT ![dci] =
                                                     [@ EXCEPT !.fd = -1]]]
       IN  ApplyDState(trace_run_cleanup(st1, dci, g_anchor))
    /\ dci' = 0
    /\ dpc' = "idle"
    /\ UNCHANGED <<global_enable, ringVars, cntVars, semVars, stubVars, pos,
                   batch, line, lock_cache,
                   lock_cache_next, run_ok, g_anchor, g_events_dropped, procs, next_proc_id,
                   lpc, lastSeq, prevSeq, holder, ovfTotal, noticeSum, uaf, asked,
                   lockPaths, recovered, inst>>

RunCheckStep ==
    \/ \E i \in Clients : DrainBegin(i)
    \/ DrainTest
    \/ DrainFormat
    \/ DrainSend({})
    \/ DrainRelease
    \/ DrainFinish
    \/ RunExitNotify

(* ---------------- the system ---------------- *)

(* After atrace_loader has installed the patches (noise functions       *)
(* disabled, tracing enabled) and amigactld has found the anchor.       *)
Init ==
    /\ global_enable = 1
    /\ filter_task = NULL
    /\ enabled = [i \in PatchIds |->
                    IF \E n \in 1 .. Len(NoisePatchIndices) :
                          NoisePatchIndices[n] = i
                    THEN 0 ELSE 1]
    /\ ring_ptr = "ring"
    /\ write_pos = 0
    /\ read_pos = 0
    /\ overflow = 0
    /\ entries = [s \in Slots |-> ClearEntry]
    /\ event_sequence = 0
    /\ events_consumed = 0
    /\ use_count = [i \in PatchIds |-> 0]
    /\ sem_excl = FALSE
    /\ sem_shared = 0
    /\ pc = [t \in Tasks |-> "idle"]
    /\ spatch = [t \in Tasks |-> 1]
    /\ slot = [t \in Tasks |-> 0]
    /\ sseq = [t \in Tasks |-> 0]
    /\ retv = [t \in Tasks |-> 0]
    /\ origCalls = [t \in Tasks |-> 0]
    /\ calls = 0
    /\ dpc = "idle"
    /\ pos = 0
    /\ batch = 0
    /\ line = NoLine
    /\ lock_cache = lock_cache_clear
    /\ lock_cache_next = 0
    /\ lockPaths = [i \in Clients |-> NoPaths]
    /\ recovered = FALSE
    /\ inst = Installed
    /\ dci = 0
    /\ run_ok = 1
    /\ g_anchor = "anchor"
    /\ g_events_dropped = 0
    /\ clients = [i \in Clients |-> IdleClient]
    /\ procs = [s \in ProcSlots |-> FreeProc]
    /\ next_proc_id = 1
    /\ lpc = "idle"
    /\ lastSent = [i \in Clients |-> NothingSent]
    /\ lastSeq = -1
    /\ prevSeq = -1
    /\ holder = [s \in Slots |-> NULL]
    /\ ovfTotal = 0
    /\ noticeSum = 0
    /\ uaf = FALSE
    /\ asked = [i \in Clients |-> NothingWanted]

OpenLibrary ==
    find_patch_index_by_name(<<"O","p","e","n","L","i","b","r","a","r","y">>)

FindPort ==
    find_patch_index_by_name(<<"F","i","n","d","P","o","r","t">>)

(* Producers and the consumer: two tasks call OpenLibrary while one     *)
(* client streams TRACE START with no filter.                           *)
Next ==
    \/ \E t \in SysTasks : StubPrefix(t, {OpenLibrary})
    \/ \E t \in SysTasks : StubReturn(t, {1})
    \/ PollStep
    \/ trace_cmd_start(1, NoFilterRequest)

Spec ==
    Init /\ [][Next]_vars


(* The command lines the model's clients send after the verb, as the  *)
(* patch indices their names resolve to.                              *)
GlobalArgs ==
    NameIndices(<<" ">>)

FuncArgs ==
    { NameIndices(func_table[FindPort].func_name),
      NameIndices(<<" ">> \o func_table[OpenLibrary].func_name) }

(* TRACE DISABLE, global, issued by client i while stubs run *)
DisableStep(i) ==
    \/ DisableGlobal(i)
    \/ DisableClear
    \/ DisableAdvance
    \/ DisableOverflow
    \/ DisableReply

(* Global switching: client 1 streams, client 2 sends TRACE DISABLE   *)
(* and TRACE ENABLE and the loader runs DISABLE while a task calls    *)
(* OpenLibrary.                                                       *)
NextDisable ==
    \/ StubPrefix("t1", {OpenLibrary})
    \/ StubReturn("t1", {1})
    \/ PollStep
    \/ trace_cmd_start(1, NoFilterRequest)
    \/ DisableStep(2)
    \/ trace_cmd_enable(2, GlobalArgs)
    \/ do_disable(FALSE)
    \/ DrainDone
    \/ DrainTimeout

SpecDisable ==
    Init /\ [][NextDisable]_vars

(* Switching: client 2 enables and disables FindPort and OpenLibrary   *)
(* by name and sends one global TRACE DISABLE, and client 1 starts    *)
(* and stops a TRACE RUN of a process that has not yet called         *)
(* anything, while a task calls both functions.                       *)
NextSwitch ==
    \/ StubEnter("t1", {FindPort, OpenLibrary})
    \/ StubReturn("t1", {1})
    \/ trace_cmd_run(1, "p1", <<>>)
    \/ TraceStop(1)
    \/ DisableStep(2)
    \/ \E a \in FuncArgs : trace_cmd_enable(2, a)
    \/ \E a \in FuncArgs : trace_cmd_disable(2, a)

SpecSwitch ==
    Init /\ [][NextSwitch]_vars

(* TRACE RUN: client 1 runs a command as process p1 and streams its   *)
(* events until it exits, while a system task calls OpenLibrary too.  *)
NextRun ==
    \/ \E t \in {"t1", "p1"} : StubEnter(t, {OpenLibrary})
    \/ \E t \in {"t1", "p1"} : StubReturn(t, {1})
    \/ PollStep
    \/ trace_cmd_run(1, "p1", <<>>)
    \/ ChildExit("p1", 0)
    \/ exec_scan_completed
    \/ RunCheckStep

SpecRun ==
    Init /\ [][NextRun]_vars

(* The stub of task t once the ring pointer may have been cleared. *)
StubEnterFreed(t) ==
    \E ovf \in BOOLEAN, s \in Slots : StubReserveFreed(t, ovf, s)

(* Teardown: the loader runs ENABLE, DISABLE and QUIT while a task    *)
(* calls OpenLibrary and client 1 streams.                            *)
NextQuit ==
    \/ StubPrefix("t1", {OpenLibrary})
    \/ StubEnterFreed("t1")
    \/ StubReturn("t1", {1})
    \/ PollStep
    \/ PollSemBusy
    \/ PollRingGone
    \/ trace_cmd_start(1, NoFilterRequest)
    \/ do_enable
    \/ do_disable(FALSE)
    \/ do_disable(TRUE)
    \/ DrainDone
    \/ DrainTimeout
    \/ QuitObtain
    \/ QuitFree
    \/ QuitRelease

SpecQuit ==
    Init /\ [][NextQuit]_vars

(* ---------------- filters end to end ---------------- *)

OpenDevice ==
    find_patch_index_by_name(<<"O","p","e","n","D","e","v","i","c","e">>)

MakeLink ==
    find_patch_index_by_name(<<"M","a","k","e","L","i","n","k">>)

(* The filter lines client 1 sends after TRACE START: none, LIB=,      *)
(* FUNC=, PROC= and ERRORS tokens in pairs, and a library and a        *)
(* function name that name nothing, before and after a known name.     *)
FilterLines ==
    { <<>>,
      <<"L","I","B","=","d","o","s",".","l","i","b","r","a","r","y"," ","E","R","R","O","R","S">>,
      <<"F","U","N","C","=","O","p","e","n","D","e","v","i","c","e"," ","L","I","B","=","d","o","s">>,
      <<"P","R","O","C","=","s","h","e","l","l"," ","F","U","N","C","=","M","a","k","e","L","i","n","k">>,
      <<"L","I","B","=","x"," ","F","U","N","C","=","O","p","e","n","D","e","v","i","c","e">>,
      <<"F","U","N","C","=","x"," ","L","I","B","=","e","x","e","c">> }

(* One task of the Shell calls exec.OpenDevice and dos.MakeLink,       *)
(* both returning 0 (success for OpenDevice, failure for MakeLink),    *)
(* while client 1 starts a filtered stream and the daemon polls.       *)
FilterRequests ==
    {FilterRequest(a) : a \in FilterLines}

NextFilter ==
    \/ StubPrefix("t1", {OpenDevice, MakeLink})
    \/ StubReturn("t1", {0})
    \/ PollStep
    \/ \E req \in FilterRequests : trace_cmd_start(1, req)

SpecFilter ==
    Init /\ [][NextFilter]_vars

(* ---------------- a producer blocked in the original ---------------- *)

(* Task t1 calls OpenLibrary and its original never returns; task t2   *)
(* calls OpenLibrary and returns; client 1 streams TRACE START.         *)
NextFair ==
    \/ StubPrefix("t1", {OpenLibrary})
    \/ StubPrefix("t2", {OpenLibrary})
    \/ StubReturn("t2", {1})
    \/ PollStep
    \/ trace_cmd_start(1, NoFilterRequest)

(* The daemon's event loop keeps calling trace_poll_events and each    *)
(* handler runs to its end; Exec keeps scheduling the ready task t2.   *)
SpecFair ==
    /\ Init
    /\ [][NextFair]_vars
    /\ WF_vars(PollStep)
    /\ WF_vars(StubPrefix("t2", {OpenLibrary}) \/ StubReturn("t2", {1}))

(* ---------------- teardown while the daemon keeps polling ---------- *)

(* The loader runs each of its commands to the end and the daemon's   *)
(* event loop keeps calling trace_poll_events.                        *)
SpecQuitFair ==
    /\ SpecQuit
    /\ WF_vars(PollStep \/ PollSemBusy \/ PollRingGone)
    /\ WF_vars(DrainDone \/ DrainTimeout \/ QuitObtain \/ QuitFree
                 \/ QuitRelease)

(* The noise function a client may switch by name during the sessions *)
NoiseArgs ==
    NameIndices(func_table[FindPort].func_name)

(* Ownership of the stub filter: both clients start and end TRACE RUN  *)
(* sessions while no patched function is called. Each command's        *)
(* process is created at one of the addresses in Children (an address  *)
(* is free again once the process before it has ended); sessions end   *)
(* by process exit or by STOP, and a client in command mode switches a *)
(* noise function.                                                     *)
NextClaim ==
    \/ \E i \in Clients, t \in Children : trace_cmd_run(i, t, <<>>)
    \/ \E t \in Children : ChildExit(t, 0)
    \/ exec_scan_completed
    \/ \E i \in Clients : DrainBegin(i)
    \/ DrainTest
    \/ DrainFinish
    \/ RunExitNotify
    \/ \E i \in Clients : TraceStop(i)
    \/ \E i \in Clients : trace_cmd_enable(i, NoiseArgs)
    \/ \E i \in Clients : trace_cmd_disable(i, NoiseArgs)

SpecClaim ==
    Init /\ [][NextClaim]_vars

(* Two TRACE RUN sessions at once: client 1 runs p1 and client 2 runs  *)
(* p2, and p2 calls OpenLibrary until it exits.                        *)
NextTwoRuns ==
    \/ StubEnter("p2", {OpenLibrary})
    \/ StubReturn("p2", {1})
    \/ PollStep
    \/ trace_cmd_run(1, "p1", <<>>)
    \/ trace_cmd_run(2, "p2", <<>>)
    \/ \E t \in Children : ChildExit(t, 0)
    \/ exec_scan_completed
    \/ RunCheckStep

SpecTwoRuns ==
    Init /\ [][NextTwoRuns]_vars

(* Return codes of the traced command *)
ExitCodes ==
    {0, 5}

(* One TRACE RUN session at a time: client 1 runs a command as p1,    *)
(* which calls OpenLibrary and returns one of ExitCodes.               *)
NextExit ==
    \/ StubEnter("p1", {OpenLibrary})
    \/ StubReturn("p1", {1})
    \/ PollStep
    \/ trace_cmd_run(1, "p1", <<>>)
    \/ \E r \in ExitCodes : ChildExit("p1", r)
    \/ exec_scan_completed
    \/ RunCheckStep

(* The daemon's main loop keeps running, and every pass scans the     *)
(* process table, checks the RUN sessions and polls the ring: a       *)
(* handler that is due again and again is run (strong fairness, as    *)
(* each handler is only due between the others).                      *)
SpecExitFair ==
    /\ Init /\ [][NextExit]_vars
    /\ SF_vars(exec_scan_completed)
    /\ SF_vars(RunCheckStep)
    /\ SF_vars(PollStep)

(* ---------------- the lock-to-path cache in a session ---------------- *)

Lock ==
    find_patch_index_by_name(<<"L","o","c","k">>)

CreateDir ==
    find_patch_index_by_name(<<"C","r","e","a","t","e","D","i","r">>)

CurrentDir ==
    find_patch_index_by_name(<<"C","u","r","r","e","n","t","D","i","r">>)

(* Lock and CreateDir events as the poll loop reads them: failed, or  *)
(* returning one of LockVals                                          *)
LockEvents ==
    { [ClearEntry EXCEPT !.valid = 1, !.func = f, !.retval = l,
                         !.caller_task = "t1"] :
        f \in {Lock, CreateDir}, l \in LockVals \cup {0} }

(* CurrentDir(lock) events *)
CurrentDirEvents ==
    { [ClearEntry EXCEPT !.valid = 1, !.func = CurrentDir, !.args = l,
                         !.caller_task = "t1"] : l \in LockVals }

(* trace_format_event on entry ev with string_data, while a session is *)
(* active: the line, and the cache after a Lock or CreateDir event     *)
FormatEvent(ev, string_data) ==
    /\ dpc = "idle"
    /\ g_anchor # NULL
    /\ trace_any_active
    /\ IsLockEvent(ev) => lock_cache_next < MaxLocks
    /\ line' = FormatLine(ev)
    /\ lock_cache' = lock_cache_after(ev, string_data).cache
    /\ lock_cache_next' = lock_cache_after(ev, string_data).next
    /\ lockPaths' = [i \in Clients |->
          IF /\ clients[i].fd >= 0 /\ clients[i].active = 1
             /\ IsLockEvent(ev) /\ ev.retval # 0 /\ string_data # <<>>
          THEN [lockPaths[i] EXCEPT ![ev.retval] = string_data]
          ELSE lockPaths[i]]
    /\ UNCHANGED <<flagVars, ringVars, cntVars, semVars, stubVars, dpc, pos,
                   batch, dci, run_ok, dmnVars, lpc, lastSent, lastSeq,
                   prevSeq, holder, ovfTotal, noticeSum, uaf, asked, recovered, inst>>

(* Sessions of two clients while Lock, CreateDir and CurrentDir events *)
(* are formatted.                                                      *)
NextLockCache ==
    \/ \E i \in Clients : trace_cmd_start(i, NoFilterRequest)
    \/ \E i \in Clients : TraceStop(i)
    \/ \E ev \in LockEvents, p \in Paths : FormatEvent(ev, p)
    \/ \E ev \in CurrentDirEvents : FormatEvent(ev, <<>>)

SpecLockCache ==
    Init /\ [][NextLockCache]_vars

(* ---------------- the status character of every function ------------ *)

(* ev->retval: NULL, small codes of both signs, and both ends of the   *)
(* signed 32-bit range                                                 *)
RetVals ==
    {0, 1, -1, -2, 2147483647, -2147483647 - 1}

(* One completed call of every function of func_table with every       *)
(* return value of RetVals.                                            *)
StatusEvents ==
    { [ClearEntry EXCEPT !.valid = 1, !.func = f, !.retval = r,
                         !.caller_task = "t1"] :
        f \in PatchIds, r \in RetVals }

(* Sessions of two clients while events of every function are         *)
(* formatted.                                                          *)
NextStatus ==
    \/ \E i \in Clients : trace_cmd_start(i, NoFilterRequest)
    \/ \E i \in Clients : TraceStop(i)
    \/ \E ev \in StatusEvents : FormatEvent(ev, <<>>)

SpecStatus ==
    Init /\ [][NextStatus]_vars

(* ---------------- command lines and session states ------------------ *)

(* The lines a client sends to start a session. *)
TailLine ==
    <<"T","A","I","L"," ","f">>

StartLine ==
    <<"T","R","A","C","E"," ","S","T","A","R","T">>

RunLine ==
    <<"T","R","A","C","E"," ","R","U","N">>

SessionLines ==
    {TailLine, StartLine, RunLine}

(* What one receive can hold: one to MaxLines complete lines. *)
ReceivedLines ==
    UNION { [1 .. n -> SessionLines] : n \in 1 .. MaxLines }

(* dispatch_command: the verb of a line, and the rest behind the       *)
(* blanks that follow it                                               *)
VerbOf(l) ==
    SubSeq(l, 1, TokenLen(l, Len(l)))

RestOf(l) ==
    LET r == Drop(l, TokenLen(l, Len(l)))
    IN  Drop(r, SkipWs(r))

(* handle_client's loop is still extracting lines of some client. *)
Dispatching ==
    \E j \in Clients : clients[j].recv_buf # <<>>

(* The event loop: a client neither tailing nor tracing is served by    *)
(* handle_client; recv_into_buf has read lines into recv_buf.          *)
handle_client(i, lines) ==
    /\ dpc = "idle"
    /\ ~Dispatching
    /\ clients[i].fd >= 0
    /\ clients[i].tail_active = 0
    /\ clients[i].active = 0
    /\ (\E n \in DOMAIN lines : lines[n] = RunLine)
          => next_proc_id <= MaxRuns
    /\ clients' = [clients EXCEPT ![i] = [@ EXCEPT !.recv_buf = lines]]
    /\ UNCHANGED <<flagVars, ringVars, cntVars, semVars, stubVars, pollVars,
                   g_anchor, g_events_dropped, procs, next_proc_id, lpc,
                   histVars>>

(* extract_command: the first line of recv_buf is taken out *)
Extracted(i) ==
    [clients EXCEPT ![i] = [@ EXCEPT !.recv_buf = Tail(@)]]

(* trace_cmd_start and trace_cmd_run with a tail or trace session       *)
(* active: the error line, and nothing else                            *)
trace_cmd_rejected(cl, i) ==
    /\ dpc = "idle"
    /\ cl[i].fd >= 0
    /\ cl[i].tail_active # 0 \/ cl[i].active # 0
    /\ clients' = cl
    /\ lastSent' = [lastSent EXCEPT ![i] = [kind |-> "error"]]
    /\ UNCHANGED <<flagVars, ringVars, cntVars, semVars, stubVars, pollVars,
                   g_anchor, g_events_dropped, procs, next_proc_id, lpc,
                   lastSeq, prevSeq, holder, ovfTotal, noticeSum, uaf,
                   asked, lockPaths, recovered, inst>>

(* cmd_tail: found is whether the path names a file that can be locked *)
(* and examined                                                        *)
cmd_tail(cl, i, found) ==
    /\ dpc = "idle"
    /\ cl[i].fd >= 0
    /\ clients' = IF found
                  THEN [cl EXCEPT ![i] = [@ EXCEPT !.tail_active = 1]]
                  ELSE cl
    /\ lastSent' = [lastSent EXCEPT ![i] =
                      IF found THEN [kind |-> "ok"] ELSE [kind |-> "error"]]
    /\ UNCHANGED <<flagVars, ringVars, cntVars, semVars, stubVars, pollVars,
                   g_anchor, g_events_dropped, procs, next_proc_id, lpc,
                   lastSeq, prevSeq, holder, ovfTotal, noticeSum, uaf,
                   asked, lockPaths, recovered, inst>>

(* dispatch_command on the next line of client i *)
DispatchStart(i) ==
    /\ clients[i].recv_buf # <<>>
    /\ dpc = "idle"
    /\ stricmp0(VerbOf(Head(clients[i].recv_buf)), <<"T","R","A","C","E">>)
    /\ stricmp0(VerbOf(RestOf(Head(clients[i].recv_buf))), <<"S","T","A","R","T">>)
    /\ \/ trace_cmd_rejected(Extracted(i), i)
       \/ trace_cmd_start_on(Extracted(i), i, NoFilterRequest)

DispatchRun(i, t) ==
    /\ clients[i].recv_buf # <<>>
    /\ dpc = "idle"
    /\ stricmp0(VerbOf(Head(clients[i].recv_buf)), <<"T","R","A","C","E">>)
    /\ stricmp0(VerbOf(RestOf(Head(clients[i].recv_buf))), <<"R","U","N">>)
    /\ \/ trace_cmd_rejected(Extracted(i), i)
       \/ trace_cmd_run_on(Extracted(i), i, t, <<>>)

DispatchTail(i, found) ==
    /\ clients[i].recv_buf # <<>>
    /\ dpc = "idle"
    /\ stricmp0(VerbOf(Head(clients[i].recv_buf)), <<"T","A","I","L">>)
    /\ cmd_tail(Extracted(i), i, found)

(* The lines a client sends while it is streaming. *)
StopLine ==
    <<"S","T","O","P">>

StreamLines ==
    {StopLine, <<"s","t","o","p">>, <<" ","S","T","O","P">>,
     <<"S","T","O","P"," ">>, StartLine}

(* The event loop: a tailing client is served by tail_handle_input, a  *)
(* tracing client by trace_handle_input; recv_into_buf has read line l *)
StreamRecv(i, l) ==
    /\ dpc = "idle"
    /\ ~Dispatching
    /\ clients[i].fd >= 0
    /\ clients[i].tail_active = 1 \/ clients[i].active = 1
    /\ clients' = [clients EXCEPT ![i] = [@ EXCEPT !.recv_buf = <<l>>]]
    /\ dpc' = IF clients[i].tail_active = 1 THEN "tail_input"
              ELSE "trace_input"
    /\ dci' = i
    /\ UNCHANGED <<flagVars, ringVars, cntVars, semVars, stubVars, pos,
                   batch, line, lock_cache, lock_cache_next, run_ok,
                   g_anchor, g_events_dropped, procs, next_proc_id, lpc,
                   histVars>>

(* p skips the leading blanks; stricmp(p, "STOP") == 0 *)
IsStop(l) ==
    stricmp0(Drop(l, SkipWs(l)), StopLine)

(* tail_handle_input on the line of client dci: STOP runs tail_stop,   *)
(* any other line is discarded                                         *)
tail_handle_input ==
    /\ dpc = "tail_input"
    /\ LET l == Head(clients[dci].recv_buf)
       IN  /\ clients' = [Extracted(dci) EXCEPT ![dci] =
                 [@ EXCEPT !.tail_active = IF IsStop(l) THEN 0 ELSE @]]
           /\ lastSent' = IF IsStop(l)
                          THEN [lastSent EXCEPT ![dci] = [kind |-> "end"]]
                          ELSE lastSent
    /\ dpc' = "idle"
    /\ dci' = 0
    /\ UNCHANGED <<flagVars, ringVars, cntVars, semVars, stubVars, pos,
                   batch, line, lock_cache, lock_cache_next, run_ok,
                   g_anchor, g_events_dropped, procs, next_proc_id, lpc,
                   lastSeq, prevSeq, holder, ovfTotal, noticeSum, uaf,
                   asked, lockPaths, recovered, inst>>

(* trace_handle_input on the line of client dci: STOP sends END and    *)
(* runs trace_run_cleanup, any other line is discarded                 *)
trace_handle_input ==
    /\ dpc = "trace_input"
    /\ LET l == Head(clients[dci].recv_buf)
           st == [DState EXCEPT !.clients = Extracted(dci)]
       IN  ApplyDState(
             IF IsStop(l)
             THEN trace_run_cleanup(
                    [st EXCEPT !.sent = [@ EXCEPT ![dci] = [kind |-> "end"]]],
                    dci, g_anchor)
             ELSE st)
    /\ dpc' = "idle"
    /\ dci' = 0
    /\ UNCHANGED <<global_enable, ringVars, cntVars, semVars, stubVars, pos,
                   batch, line, lock_cache, lock_cache_next, run_ok,
                   g_anchor, g_events_dropped, procs, next_proc_id, lpc,
                   lastSeq, prevSeq, holder, ovfTotal, noticeSum, uaf,
                   asked, lockPaths, recovered, inst>>

(* The event loop on a tracing client whose receive returns <= 0:      *)
(* trace_handle_input clears four fields and returns -1, then          *)
(* disconnect_client closes the connection.                            *)
TraceDisconnect(i) ==
    /\ dpc = "idle"
    /\ ~Dispatching
    /\ clients[i].fd >= 0
    /\ clients[i].tail_active = 0
    /\ clients[i].active = 1
    /\ clients' = [clients EXCEPT ![i] =
                     [@ EXCEPT !.active = 0, !.mode = TRACE_MODE_START,
                               !.run_proc_slot = -1, !.run_task_ptr = NULL,
                               !.tail_active = 0, !.fd = -1,
                               !.recv_buf = <<>>]]
    /\ UNCHANGED <<flagVars, ringVars, cntVars, semVars, stubVars, pollVars,
                   g_anchor, g_events_dropped, procs, next_proc_id, lpc,
                   histVars>>

(* handle_accept: a new connection takes the first free client slot *)
handle_accept ==
    /\ dpc = "idle"
    /\ ~Dispatching
    /\ \E i \in Clients :
          /\ clients[i].fd < 0
          /\ \A j \in Clients : j < i => clients[j].fd >= 0
          /\ clients' = [clients EXCEPT ![i] =
                           [@ EXCEPT !.fd = 1, !.recv_buf = <<>>,
                                     !.tail_active = 0]]
          /\ lastSent' = [lastSent EXCEPT ![i] = [kind |-> "banner"]]
    /\ UNCHANGED <<flagVars, ringVars, cntVars, semVars, stubVars, pollVars,
                   g_anchor, g_events_dropped, procs, next_proc_id, lpc,
                   lastSeq, prevSeq, holder, ovfTotal, noticeSum, uaf,
                   asked, lockPaths, recovered, inst>>

NextSession ==
    \/ \E i \in Clients, lines \in ReceivedLines : handle_client(i, lines)
    \/ \E i \in Clients : DispatchStart(i)
    \/ \E i \in Clients, t \in Children : DispatchRun(i, t)
    \/ \E i \in Clients, found \in BOOLEAN : DispatchTail(i, found)
    \/ \E i \in Clients, l \in StreamLines : StreamRecv(i, l)
    \/ tail_handle_input
    \/ trace_handle_input
    \/ \E i \in Clients : TraceDisconnect(i)
    \/ handle_accept

SpecSession ==
    Init /\ [][NextSession]_vars

(* ---------------- sends that fail during a broadcast ---------------- *)

(* Client 1 runs a command as p1 and client 2 traces with TRACE START;  *)
(* p1 calls OpenLibrary; any send of an event line can fail.           *)
NextSendFail ==
    \/ StubEnter("p1", {OpenLibrary})
    \/ StubReturn("p1", {1})
    \/ trace_cmd_run(1, "p1", <<>>)
    \/ trace_cmd_start(2, NoFilterRequest)
    \/ PollEnter
    \/ PollObtain
    \/ PollTest
    \/ PollFormat
    \/ \E fails \in SUBSET Clients : PollBroadcast(fails)
    \/ PollRelease
    \/ PollFinish
    \/ ChildExit("p1", 0)
    \/ exec_scan_completed
    \/ \E i \in Clients : DrainBegin(i)
    \/ DrainTest
    \/ DrainFormat
    \/ \E fails \in SUBSET Clients : DrainSend(fails)
    \/ DrainRelease
    \/ DrainFinish
    \/ RunExitNotify

SpecSendFail ==
    Init /\ [][NextSendFail]_vars

(* ---------------- ENABLE / DISABLE with function names ---------------- *)

(* A word that names no function. *)
Nonesuch ==
    <<"N", "o", "p", "e">>

(* FindPort followed by 24 more characters: a word of 32 characters, *)
(* one more than the name[32] buffer of the daemon keeps.            *)
LongName ==
    func_table[FindPort].func_name
      \o [k \in 1 .. 24 |-> "x"]

(* The lists of function names of the model's commands. *)
NameLists ==
    { <<func_table[FindPort].func_name>>,
      <<func_table[OpenLibrary].func_name, func_table[FindPort].func_name>>,
      <<LowerStr(func_table[OpenLibrary].func_name)>>,
      <<func_table[FindPort].func_name, Nonesuch>>,
      <<Nonesuch, func_table[OpenLibrary].func_name>>,
      <<func_table[OpenLibrary].func_name, LongName>> }

(* The argument text of the daemon command: the names, one blank *)
(* before each.                                                  *)
RECURSIVE JoinNames(_)
JoinNames(ns) ==
    IF ns = <<>> THEN <<>>
    ELSE <<" ">> \o Head(ns) \o JoinNames(Tail(ns))

(* FUNCS/M of ReadArgs: one lookup per argument word *)
LoaderIndices(ns) ==
    [k \in 1 .. Len(ns) |-> find_patch_by_name(ns[k])]

(* do_enable(anchor, funcs), funcs non-NULL; lpc keeps the return code *)
do_enable_funcs(idx) ==
    /\ lpc = "idle"
    /\ idx # <<>>
    /\ IF ~AllNamesKnown(idx)
       THEN /\ lpc' = "RETURN_FAIL"
            /\ UNCHANGED enabled
       ELSE /\ enabled' = SetEnabled(enabled, idx, 1, 1)
            /\ lpc' = "RETURN_OK"
    /\ UNCHANGED <<global_enable, filter_task, ringVars, cntVars, semVars,
                   stubVars, pollVars, dmnVars, histVars>>

(* do_disable(anchor, funcs), funcs non-NULL *)
do_disable_funcs(idx) ==
    /\ lpc = "idle"
    /\ idx # <<>>
    /\ IF ~AllNamesKnown(idx)
       THEN /\ lpc' = "RETURN_FAIL"
            /\ UNCHANGED enabled
       ELSE /\ enabled' = SetEnabled(enabled, idx, 1, 0)
            /\ lpc' = "RETURN_OK"
    /\ UNCHANGED <<global_enable, filter_task, ringVars, cntVars, semVars,
                   stubVars, pollVars, dmnVars, histVars>>

(* main: FreeArgs(rdargs); return rc *)
LoaderReturn ==
    /\ lpc \in {"RETURN_OK", "RETURN_FAIL"}
    /\ lpc' = "idle"
    /\ UNCHANGED <<flagVars, ringVars, cntVars, semVars, stubVars, pollVars,
                   dmnVars, histVars>>

(* Each list of names with what the daemon's two passes over the    *)
(* argument text and the loader's lookups of the words resolve it to *)
NameCases ==
    { [names |-> ns,
       daemon |-> NameIndices(JoinNames(ns)),
       loader |-> LoaderIndices(ns)] : ns \in NameLists }

(* Switching by name: client 2 and the loader enable and disable the  *)
(* functions of NameLists while a task calls FindPort and OpenLibrary *)
(* and has ring entries reserved.                                     *)
NextNames ==
    \/ StubPrefix("t1", {FindPort, OpenLibrary})
    \/ StubReturn("t1", {1})
    \/ \E c \in NameCases : trace_cmd_enable(2, c.daemon)
    \/ \E c \in NameCases : trace_cmd_disable(2, c.daemon)
    \/ \E c \in NameCases : do_enable_funcs(c.loader)
    \/ \E c \in NameCases : do_disable_funcs(c.loader)
    \/ LoaderReturn

SpecNames ==
    Init /\ [][NextNames]_vars

(* ---------------- a corrupted read position ---------------- *)

(* The values a foreign store leaves in ring->read_pos: the capacity *)
(* and the value after it, both outside the ring.                    *)
CorruptPositions ==
    {RingCap, RingCap + 1}

(* The ring is in public memory without protection: a store of another *)
(* program leaves ring->read_pos outside the ring, the condition the    *)
(* guards of trace_poll_events and of the final drain test for.         *)
CorruptReadPos ==
    /\ ring_ptr # NULL
    /\ read_pos < RingCap
    /\ dpc = "idle"
    /\ \E v \in CorruptPositions : read_pos' = v
    /\ UNCHANGED <<flagVars, ring_ptr, write_pos, overflow, entries, cntVars,
                   semVars, stubVars, pollVars, dmnVars, lpc, histVars>>

(* Client 1 runs p1 with TRACE RUN while p1 calls OpenLibrary and   *)
(* exits, the daemon polls and drains, and read_pos is corrupted    *)
(* between two handlers.                                            *)
NextCorrupt ==
    \/ StubEnter("p1", {OpenLibrary})
    \/ StubReturn("p1", {1})
    \/ PollStep
    \/ trace_cmd_run(1, "p1", <<>>)
    \/ ChildExit("p1", 0)
    \/ exec_scan_completed
    \/ RunCheckStep
    \/ CorruptReadPos

SpecCorrupt ==
    Init /\ [][NextCorrupt]_vars

(* ---------------- the loader: fresh installation ---------------- *)

(* Before the loader has run: nothing allocated, no semaphore named *)
(* ATRACE_SEM_NAME in the system list, no library vector replaced.  *)
NotInstalled ==
    [attempt |-> 0,
     allocated |-> {},
     published |-> FALSE,
     opened |-> {},
     patched |-> {},
     start_disabled |-> FALSE,
     funcs |-> <<>>]

InitBoot ==
    /\ global_enable = 0
    /\ filter_task = NULL
    /\ enabled = [i \in PatchIds |-> 0]
    /\ ring_ptr = NULL
    /\ write_pos = 0
    /\ read_pos = 0
    /\ overflow = 0
    /\ entries = [s \in Slots |-> ClearEntry]
    /\ event_sequence = 0
    /\ events_consumed = 0
    /\ use_count = [i \in PatchIds |-> 0]
    /\ sem_excl = FALSE
    /\ sem_shared = 0
    /\ pc = [t \in Tasks |-> "idle"]
    /\ spatch = [t \in Tasks |-> 1]
    /\ slot = [t \in Tasks |-> 0]
    /\ sseq = [t \in Tasks |-> 0]
    /\ retv = [t \in Tasks |-> 0]
    /\ origCalls = [t \in Tasks |-> 0]
    /\ calls = 0
    /\ dpc = "idle"
    /\ pos = 0
    /\ batch = 0
    /\ line = NoLine
    /\ lock_cache = lock_cache_clear
    /\ lock_cache_next = 0
    /\ dci = 0
    /\ run_ok = 1
    /\ g_anchor = NULL
    /\ g_events_dropped = 0
    /\ clients = [i \in Clients |-> IdleClient]
    /\ procs = [s \in ProcSlots |-> FreeProc]
    /\ next_proc_id = 1
    /\ lpc = "idle"
    /\ lastSent = [i \in Clients |-> NothingSent]
    /\ lastSeq = -1
    /\ prevSeq = -1
    /\ holder = [s \in Slots |-> NULL]
    /\ ovfTotal = 0
    /\ noticeSum = 0
    /\ uaf = FALSE
    /\ asked = [i \in Clients |-> NothingWanted]
    /\ lockPaths = [i \in Clients |-> NoPaths]
    /\ recovered = FALSE
    /\ inst = NotInstalled

(* the FUNCS arguments of the model's loader runs: none, a known name, *)
(* an unknown name                                                      *)
InstallFuncs ==
    { <<>>,
      <<func_table[OpenLibrary].func_name>>,
      <<Nonesuch>> }

(* the sets of functions whose stub_generate_and_install succeeds *)
PatchOutcomes ==
    { PatchIds, PatchIds \ {FindPort}, {} }

(* everything but the loader's position and the installer state *)
instRest ==
    <<filter_task, write_pos, read_pos, overflow, entries, cntVars, semVars,
      stubVars, pollVars, dmnVars, lastSent, lastSeq, prevSeq, holder,
      ovfTotal, noticeSum, uaf, asked, lockPaths, recovered>>

(* main finds no anchor and calls do_install; the names are validated *)
(* before anything is allocated                                       *)
InstallBegin(disabled, funcs) ==
    /\ lpc = "idle"
    /\ ~inst.published
    /\ inst.attempt < MaxInstalls
    /\ inst' = [inst EXCEPT !.attempt = @ + 1,
                            !.start_disabled = disabled,
                            !.funcs = funcs]
    /\ lpc' = IF AllNamesKnown(LoaderIndices(funcs))
              THEN "alloc_anchor" ELSE "RETURN_FAIL"
    /\ UNCHANGED <<global_enable, enabled, ring_ptr, instRest>>

(* 1. AllocMem(sizeof(struct atrace_anchor)) *)
InstallAllocAnchor(ok) ==
    /\ lpc = "alloc_anchor"
    /\ IF ok
       THEN /\ inst' = [inst EXCEPT !.allocated = @ \cup {<<"anchor", inst.attempt>>}]
            /\ lpc' = "alloc_ring"
       ELSE /\ lpc' = "RETURN_FAIL"
            /\ UNCHANGED inst
    /\ UNCHANGED <<global_enable, enabled, ring_ptr, instRest>>

(* 2. ringbuf_alloc(capacity); on failure the anchor is left allocated *)
InstallAllocRing(ok) ==
    /\ lpc = "alloc_ring"
    /\ IF ok
       THEN /\ inst' = [inst EXCEPT !.allocated = @ \cup {<<"ring", inst.attempt>>}]
            /\ lpc' = "alloc_patches"
       ELSE /\ lpc' = "RETURN_FAIL"
            /\ UNCHANGED inst
    /\ UNCHANGED <<global_enable, enabled, ring_ptr, instRest>>

(* 3. AllocMem of the patch array; on failure FreeMem(ring) *)
InstallAllocPatches(ok) ==
    /\ lpc = "alloc_patches"
    /\ IF ok
       THEN /\ inst' = [inst EXCEPT !.allocated = @ \cup {<<"patches", inst.attempt>>}]
            /\ lpc' = "alloc_name"
       ELSE /\ inst' = [inst EXCEPT !.allocated = @ \ {<<"ring", inst.attempt>>}]
            /\ lpc' = "RETURN_FAIL"
    /\ UNCHANGED <<global_enable, enabled, ring_ptr, instRest>>

(* 4. InitSemaphore, AllocMem of the semaphore name, and the anchor's *)
(* fields; on failure return RETURN_FAIL                              *)
InstallAllocName(ok) ==
    /\ lpc = "alloc_name"
    /\ IF ok
       THEN /\ inst' = [inst EXCEPT !.allocated = @ \cup {<<"sem_name", inst.attempt>>}]
            /\ global_enable' = IF inst.start_disabled THEN 0 ELSE 1
            /\ ring_ptr' = "ring"
            /\ lpc' = "patch"
       ELSE /\ lpc' = "RETURN_FAIL"
            /\ UNCHANGED <<inst, global_enable, ring_ptr>>
    /\ UNCHANGED <<enabled, instRest>>

(* the func_table entries of the libraries in opened *)
LibFuncs(opened) ==
    {i \in PatchIds :
        \E li \in opened : atrace_libs[li].lib_id = func_table[i].lib_id}

(* 5. the libraries in opened are opened, the others skipped; every   *)
(* descriptor that is filled gets enabled = 1; the vectors of the     *)
(* functions in done are replaced, a failed patch is skipped          *)
InstallPatches(opened, done) ==
    /\ lpc = "patch"
    /\ enabled' = [i \in PatchIds |->
                     IF PatchArray[opened][i].filled THEN 1 ELSE 0]
    /\ inst' = [inst EXCEPT !.opened = opened,
                            !.patched = done \cap LibFuncs(opened)]
    /\ lpc' = "funcs"
    /\ UNCHANGED <<global_enable, ring_ptr, instRest>>

(* 6. FUNCS: disable all, enable the named ones; else disable the noise *)
(* functions                                                            *)
InstallEnable ==
    /\ lpc = "funcs"
    /\ enabled' = IF inst.funcs # <<>>
                  THEN SetEnabled([i \in PatchIds |-> 0],
                                  LoaderIndices(inst.funcs), 1, 1)
                  ELSE SetEnabled(enabled, NoisePatchIndices, 1, 0)
    /\ lpc' = "publish"
    /\ UNCHANGED <<global_enable, ring_ptr, inst, instRest>>

(* 7. AddSemaphore(&anchor->sem); return RETURN_OK *)
InstallPublish ==
    /\ lpc = "publish"
    /\ inst' = [inst EXCEPT !.published = TRUE]
    /\ lpc' = "RETURN_OK"
    /\ UNCHANGED <<global_enable, enabled, ring_ptr, instRest>>

(* a call of OpenLibrary by task t1 once its vector is replaced *)
PatchedCall ==
    /\ OpenLibrary \in inst.patched
    /\ \/ StubPrefix("t1", {OpenLibrary})
       \/ StubReturn("t1", {1})

(* Loader runs on a system without atrace: every allocation of       *)
(* do_install can fail, a failed run can be followed by another run, *)
(* and t1 calls OpenLibrary as soon as it is patched.                *)
NextInstall ==
    \/ \E d \in BOOLEAN, f \in InstallFuncs : InstallBegin(d, f)
    \/ \E ok \in BOOLEAN : InstallAllocAnchor(ok)
    \/ \E ok \in BOOLEAN : InstallAllocRing(ok)
    \/ \E ok \in BOOLEAN : InstallAllocPatches(ok)
    \/ \E ok \in BOOLEAN : InstallAllocName(ok)
    \/ \E done \in PatchOutcomes : InstallPatches(AllLibs, done)
    \/ InstallEnable
    \/ InstallPublish
    \/ LoaderReturn
    \/ PatchedCall

SpecInstall ==
    InitBoot /\ [][NextInstall]_vars

(* ---------------- return values of consumed entries ---------------- *)

(* The original function returns a non-zero value that tells the calls *)
(* apart: the sequence number of the call's reservation plus one.      *)
OriginalReturn(t) ==
    StubCallOriginal(t, sseq[t] + 1)

(* Task t1 calls OpenLibrary until the ring has wrapped, each call     *)
(* failing with 0 or returning its own value, while client 1 streams  *)
(* TRACE START and the daemon polls.                                  *)
NextRetval ==
    \/ StubPrefix("t1", {OpenLibrary})
    \/ OriginalReturn("t1")
    \/ StubCallOriginal("t1", 0)
    \/ StubPostCall("t1")
    \/ StubPostDec("t1")
    \/ PollStep
    \/ trace_cmd_start(1, NoFilterRequest)

SpecRetval ==
    Init /\ [][NextRetval]_vars
(* ---------------- in-flight counters ---------------- *)

(* Tasks t1 and t2 call FindPort, a noise function the loader left     *)
(* disabled, and OpenLibrary, while client 1 streams TRACE START and  *)
(* the daemon polls: pass-through, traced and overflow paths.         *)
NextBalance ==
    \/ \E t \in SysTasks : StubPrefix(t, {FindPort, OpenLibrary})
    \/ \E t \in SysTasks : StubReturn(t, {1})
    \/ PollStep
    \/ trace_cmd_start(1, NoFilterRequest)

SpecBalance ==
    Init /\ [][NextBalance]_vars

(* ---------------- orphaned filter ---------------- *)

(* Two clients start TRACE RUN sessions that end by STOP, by the exit  *)
(* of the child or by a dropped connection, after which the client     *)
(* slot is accepted again.                                             *)
NextOrphan ==
    \/ \E i \in Clients, t \in Children : trace_cmd_run(i, t, <<>>)
    \/ \E t \in Children : ChildExit(t, 0)
    \/ exec_scan_completed
    \/ \E i \in Clients : DrainBegin(i)
    \/ DrainTest
    \/ DrainFinish
    \/ RunExitNotify
    \/ \E i \in Clients : TraceStop(i)
    \/ \E i \in Clients : TraceDisconnect(i)
    \/ handle_accept

SpecOrphan ==
    Init /\ [][NextOrphan]_vars

(* ---------------- the daemon: TRACE RUN rejected ---------------- *)

(* sizeof(filter_buf) *)
filter_buf_size ==
    256

(* The position of the "--" separator in args: two dashes at the start *)
(* or behind a blank, followed by a blank or the end; 0 when missing.   *)
RunSeparator(args) ==
    LET hit(p) == /\ args[p] = "-"
                  /\ p + 1 <= Len(args)
                  /\ args[p + 1] = "-"
                  /\ (p = 1 \/ IsWs(args[p - 1]))
                  /\ (p + 2 > Len(args) \/ IsWs(args[p + 2]))
    IN  IF \E p \in 1 .. Len(args) : hit(p)
        THEN CHOOSE p \in 1 .. Len(args) :
               hit(p) /\ \A q \in 1 .. (p - 1) : ~hit(q)
        ELSE 0

(* command: what follows the separator and its blanks *)
RunCommand(args) ==
    LET rest == Drop(args, RunSeparator(args) + 1)
    IN  Drop(rest, SkipWs(rest))

(* filter_buf: what precedes the separator, cut to the buffer *)
RunFilterBuf(args) ==
    LET filter_len == RunSeparator(args) - 1
    IN  SubSeq(args, 1, IF filter_len >= filter_buf_size
                        THEN filter_buf_size - 1 ELSE filter_len)

(* cd_path of the first token of the filter portion that starts with  *)
(* CD=; empty when there is none or it names nothing                   *)
RECURSIVE RunCdPath(_)
RunCdPath(scan0) ==
    LET scan == Drop(scan0, SkipWs(scan0))
        n == TokenLen(scan, Len(scan))
    IN  IF scan = <<>> THEN <<>>
        ELSE IF strnicmp0(scan, <<"C","D","=">>, 3)
        THEN SubSeq(scan, 4, n)
        ELSE RunCdPath(Drop(scan, n))

(* The argument lines of the TRACE RUN commands of the model. *)
RunArgLines ==
    { <<>>,
      <<"-","-">>,
      <<"x","-","-"," ","c">>,
      <<"P","R","O","C","=","a"," ","-","-"," ","c">>,
      <<"C","D","=","d"," ","-","-"," ","c">>,
      <<"-","-"," ","c">> }

(* What trace_cmd_run finds in each argument line. *)
RunParsed ==
    [a \in RunArgLines |->
       [separator |-> RunSeparator(a) # 0,
        command |-> RunSeparator(a) # 0 /\ RunCommand(a) # <<>>,
        proc_filter |-> /\ RunSeparator(a) # 0
                        /\ stristr(RunFilterBuf(a), <<"P","R","O","C","=">>),
        cd |-> RunSeparator(a) # 0 /\ RunCdPath(RunFilterBuf(a)) # <<>>]]

(* The early return trace_cmd_run takes for client i of cl, in the     *)
(* order of its tests, or "none".  cdFound: Lock() of the CD directory *)
(* succeeds; created: CreateNewProcTags returns a process.             *)
RunRejection(cl, i, a, cdFound, created) ==
    IF cl[i].tail_active # 0 THEN "tail"
    ELSE IF cl[i].active # 0 THEN "active"
    ELSE IF g_anchor = NULL THEN "not_loaded"
    ELSE IF global_enable = 0 THEN "disabled"
    ELSE IF ~RunParsed[a].separator THEN "no_separator"
    ELSE IF ~RunParsed[a].command THEN "no_command"
    ELSE IF RunParsed[a].proc_filter THEN "proc_filter"
    ELSE IF RunParsed[a].cd /\ ~cdFound THEN "cd_not_found"
    ELSE IF FindProcSlot < 0 THEN "table_full"
    ELSE IF ~created THEN "create_failed"
    ELSE "none"

(* a trace_cmd_run that enables the noise functions before it tests  *)
(* the arguments                                                      *)
trace_cmd_run_rejects_late(cl, i, a, cdFound, created) ==
    /\ dpc = "idle"
    /\ cl[i].fd >= 0
    /\ g_anchor = NULL => ~inst.published
    /\ LET r == RunRejection(cl, i, a, cdFound, created)
           cleared == r \in {"table_full", "create_failed"}
       IN  /\ r # "none"
           /\ clients' = cl
           /\ lastSent' = [lastSent EXCEPT ![i] =
                             [kind |-> "error", text |-> r]]
           /\ lock_cache' = IF cleared THEN lock_cache_clear ELSE lock_cache
           /\ lock_cache_next' = IF cleared THEN 0 ELSE lock_cache_next
           /\ IF r = "create_failed"
              THEN /\ next_proc_id <= MaxRuns
                   /\ procs' = [procs EXCEPT ![FindProcSlot] =
                                  [id |-> 0, status |-> PROC_EXITED,
                                   task |-> NULL, completed |-> 0, rc |-> 0]]
                   /\ next_proc_id' = next_proc_id + 1
              ELSE UNCHANGED <<procs, next_proc_id>>
    /\ enabled' = [p \in PatchIds |->
                     IF \E n \in 1 .. Len(NoisePatchIndices) :
                           NoisePatchIndices[n] = p
                     THEN 1 ELSE enabled[p]]
    /\ UNCHANGED <<global_enable, filter_task, ringVars, cntVars, semVars, stubVars, dpc, pos,
                   batch, line, dci, run_ok, g_anchor, g_events_dropped, lpc,
                   lastSeq, prevSeq, holder, ovfTotal, noticeSum, uaf,
                   asked, lockPaths, recovered, inst>>

(* trace_cmd_run taking one of its early returns.  With g_anchor NULL  *)
(* trace_auto_load finds no semaphore and cannot run the loader.  The  *)
(* lock cache is cleared before the proc slot is looked for; a failed  *)
(* CreateNewProcTags has used a process id and resets the slot.        *)
trace_cmd_run_rejects(cl, i, a, cdFound, created) ==
    /\ dpc = "idle"
    /\ cl[i].fd >= 0
    /\ g_anchor = NULL => ~inst.published
    /\ LET r == RunRejection(cl, i, a, cdFound, created)
           cleared == r \in {"table_full", "create_failed"}
       IN  /\ r # "none"
           /\ clients' = cl
           /\ lastSent' = [lastSent EXCEPT ![i] =
                             [kind |-> "error", text |-> r]]
           /\ lock_cache' = IF cleared THEN lock_cache_clear ELSE lock_cache
           /\ lock_cache_next' = IF cleared THEN 0 ELSE lock_cache_next
           /\ IF r = "create_failed"
              THEN /\ next_proc_id <= MaxRuns
                   /\ procs' = [procs EXCEPT ![FindProcSlot] =
                                  [id |-> 0, status |-> PROC_EXITED,
                                   task |-> NULL, completed |-> 0, rc |-> 0]]
                   /\ next_proc_id' = next_proc_id + 1
              ELSE UNCHANGED <<procs, next_proc_id>>
    /\ UNCHANGED <<flagVars, ringVars, cntVars, semVars, stubVars, dpc, pos,
                   batch, line, dci, run_ok, g_anchor, g_events_dropped, lpc,
                   lastSeq, prevSeq, holder, ovfTotal, noticeSum, uaf,
                   asked, lockPaths, recovered, inst>>

(* dispatch_command on a TRACE RUN line of client i with the arguments *)
(* a: rejected, or process t is created                                *)
DispatchRunArgs(i, t, a, cdFound, created) ==
    /\ clients[i].recv_buf # <<>>
    /\ dpc = "idle"
    /\ stricmp0(VerbOf(Head(clients[i].recv_buf)), <<"T","R","A","C","E">>)
    /\ stricmp0(VerbOf(RestOf(Head(clients[i].recv_buf))), <<"R","U","N">>)
    /\ \/ trace_cmd_run_rejects(Extracted(i), i, a, cdFound, created)
       \/ /\ RunRejection(Extracted(i), i, a, cdFound, created) = "none"
          /\ trace_cmd_run_on(Extracted(i), i, t, <<>>)

(* What one receive of an idle client holds here: a TRACE RUN line,  *)
(* alone or behind a line that starts a session.                     *)
RunReceives ==
    { <<RunLine>>, <<StartLine, RunLine>>, <<TailLine, RunLine>>,
      <<StartLine, TailLine, RunLine>> }

(* handle_client: recv_into_buf has read lines; a TRACE START line is *)
(* sent to the running engine only                                    *)
ReceiveRun(i, lines) ==
    /\ dpc = "idle"
    /\ ~Dispatching
    /\ clients[i].fd >= 0
    /\ clients[i].tail_active = 0
    /\ clients[i].active = 0
    /\ Head(lines) = StartLine => (g_anchor # NULL /\ global_enable # 0)
    /\ clients' = [clients EXCEPT ![i] = [@ EXCEPT !.recv_buf = lines]]
    /\ UNCHANGED <<flagVars, ringVars, cntVars, semVars, stubVars, pollVars,
                   g_anchor, g_events_dropped, procs, next_proc_id, lpc,
                   histVars>>

(* The loader's ENABLE and DISABLE, run between two receives; they    *)
(* need the installed engine.                                         *)
LoaderSwitch ==
    /\ inst.published
    /\ ~Dispatching
    /\ \/ do_enable
       \/ do_disable(FALSE)

(* From boot or from the installed engine: client 1 sends TRACE RUN   *)
(* lines, alone or behind a TAIL or TRACE START line of the same      *)
(* receive, and STOP; the loader switches tracing off and on; the    *)
(* children exit.                                                     *)
NextReject ==
    \/ \E lines \in RunReceives : ReceiveRun(1, lines)
    \/ DispatchStart(1)
    \/ \E found \in BOOLEAN : DispatchTail(1, found)
    \/ \E t \in Children, a \in RunArgLines,
          cdFound \in BOOLEAN, created \in BOOLEAN :
            DispatchRunArgs(1, t, a, cdFound, created)
    \/ StreamRecv(1, StopLine)
    \/ tail_handle_input
    \/ trace_handle_input
    \/ LoaderSwitch
    \/ DrainDone
    \/ \E t \in Children : ChildExit(t, 0)
    \/ exec_scan_completed

SpecReject ==
    (Init \/ InitBoot) /\ [][NextReject]_vars


(* ---------------- QUIT against a busy daemon ---------------- *)

(* 'atrace_loader QUIT' runs once while a task calls OpenLibrary (and  *)
(* may stay in the original for ever), client 1 streams, the daemon    *)
(* polls and client 2 sends the global TRACE ENABLE.                   *)
NextQuitDone ==
    \/ StubPrefix("t1", {OpenLibrary})
    \/ StubEnterFreed("t1")
    \/ StubReturn("t1", {1})
    \/ PollStep
    \/ PollSemBusy
    \/ PollRingGone
    \/ trace_cmd_start(1, NoFilterRequest)
    \/ trace_cmd_enable(2, GlobalArgs)
    \/ do_disable(TRUE)
    \/ DrainDone
    \/ DrainTimeout
    \/ QuitObtain
    \/ QuitFree
    \/ QuitRelease

(* The daemon's handlers run to their end and the loader is scheduled; *)
(* Exec queues the loader's ObtainSemaphore request and the daemon's   *)
(* ReleaseSemaphore hands the semaphore to the queued request, so the  *)
(* request is served once the semaphore is free again and again.       *)
SpecQuitDone ==
    /\ Init
    /\ [][NextQuitDone]_vars
    /\ WF_vars(PollStep \/ PollSemBusy \/ PollRingGone)
    /\ WF_vars(DrainDone \/ DrainTimeout \/ QuitFree \/ QuitRelease)
    /\ SF_vars(QuitObtain)

(* ---------------- ring accesses of the daemon against QUIT ----------- *)

(* trace_check_run_completed, first half: the completion test and      *)
(* 'if (g_anchor && g_anchor->ring && g_ring_entries)' with the local  *)
(* ring = g_anchor->ring, read before the semaphore is attempted.      *)
DrainCheck(i) ==
    /\ dpc = "idle"
    /\ RunCompleted(i)
    /\ \A j \in Clients : j < i => ~RunCompleted(j)
    /\ dci' = i
    /\ run_ok' = 1
    /\ recovered' = FALSE
    /\ dpc' = IF g_anchor # NULL /\ ring_ptr # NULL
              THEN "drain_try" ELSE "drain_exit"
    /\ UNCHANGED <<flagVars, ringVars, cntVars, semVars, stubVars, pos, batch,
                   line, lock_cache, lock_cache_next, dmnVars, lpc, lastSent,
                   lastSeq, prevSeq, holder, ovfTotal, noticeSum, uaf, asked,
                   lockPaths, inst>>

(* second half: AttemptSemaphoreShared, then pos = ring->read_pos      *)
(* through the local read in the first half; when the ring was freed   *)
(* in between, the read returns whatever the freed memory holds.       *)
DrainAttempt ==
    /\ dpc = "drain_try"
    /\ IF sem_excl
       THEN /\ dpc' = "drain_exit"
            /\ UNCHANGED <<sem_shared, read_pos, pos, batch, recovered>>
       ELSE /\ sem_shared' = 1
            /\ batch' = 0
            /\ dpc' = "drain_loop"
            /\ IF ring_ptr # NULL
               THEN /\ read_pos' = IF read_pos >= RingCap THEN write_pos
                                   ELSE read_pos
                    /\ pos' = IF read_pos >= RingCap THEN write_pos
                              ELSE read_pos
                    /\ recovered' = (read_pos >= RingCap)
               ELSE /\ \E p \in Slots : pos' = p
                    /\ UNCHANGED <<read_pos, recovered>>
    /\ UNCHANGED <<flagVars, ring_ptr, write_pos, overflow, entries, cntVars,
                   sem_excl, stubVars, line, lock_cache, lock_cache_next,
                   dci, run_ok, dmnVars, lpc, lastSent, lastSeq, prevSeq,
                   holder, ovfTotal, noticeSum, uaf, asked, lockPaths, inst>>

(* Patched calls the traced process makes before it exits *)
MaxRunCalls ==
    1

(* Client 1 runs a command as process p1, which calls OpenLibrary once *)
(* and exits; client 2 sends the global TRACE DISABLE; the daemon polls;   *)
(* 'atrace_loader QUIT' runs once.                                     *)
NextRingAccess ==
    \/ (calls < MaxRunCalls \/ pc["p1"] # "idle") /\ StubEnter("p1", {OpenLibrary})
    \/ StubReturn("p1", {1})
    \/ trace_cmd_run(1, "p1", <<>>)
    \/ ChildExit("p1", 0)
    \/ exec_scan_completed
    \/ DrainCheck(1)
    \/ DrainAttempt
    \/ DrainTest
    \/ DrainFormat
    \/ DrainSend({})
    \/ DrainRelease
    \/ DrainFinish
    \/ RunExitNotify
    \/ PollStep
    \/ PollSemBusy
    \/ PollRingGone
    \/ DisableStep(2)
    \/ do_disable(TRUE)
    \/ DrainDone
    \/ DrainTimeout
    \/ QuitObtain
    \/ QuitFree
    \/ QuitRelease

SpecRingAccess ==
    Init /\ [][NextRingAccess]_vars

(* ---------------- installation with a library skipped ---------------- *)

(* Loader runs on a system without atrace in which any of the target   *)
(* libraries may fail to open, followed by ENABLE and DISABLE runs of  *)
(* the loader with function names.                                      *)
NextLibs ==
    \/ \E d \in BOOLEAN, f \in InstallFuncs : InstallBegin(d, f)
    \/ \E ok \in BOOLEAN : InstallAllocAnchor(ok)
    \/ \E ok \in BOOLEAN : InstallAllocRing(ok)
    \/ \E ok \in BOOLEAN : InstallAllocPatches(ok)
    \/ \E ok \in BOOLEAN : InstallAllocName(ok)
    \/ \E opened \in SUBSET AllLibs : InstallPatches(opened, PatchIds)
    \/ InstallEnable
    \/ InstallPublish
    \/ LoaderReturn
    \/ \E c \in NameCases : inst.published /\ do_enable_funcs(c.loader)
    \/ \E c \in NameCases : inst.published /\ do_disable_funcs(c.loader)

SpecLibs ==
    InitBoot /\ [][NextLibs]_vars

(* ---------------- claims ---------------- *)

(* C1: in a run without ring overflow, each event the consumer takes   *)
(* from the ring has a sequence number exactly one more than the event *)
(* it took before: none is consumed twice and none is skipped.         *)
C1_ContiguousSequences ==
    (prevSeq # -1 /\ ovfTotal = 0) => lastSeq = prevSeq + 1

(* C3: every entry the consumer formats carries the pre-call fields of *)
(* exactly one reservation: the captured arguments in the formatted    *)
(* line are those written by the reservation whose sequence it shows.  *)
C3_OneReservationPerLine ==
    dpc \in {"poll_send", "drain_send"} => line.args = line.sequence + 1

(* C4: a stub invocation writes to a ring entry only while it holds    *)
(* the entry's reservation: never after the consumer has released the  *)
(* entry, unless it has reserved that entry again.                     *)
C4_SlotOwnership ==
    [][\A t \in Tasks :
         (/\ pc[t] \in {"fill_hdr", "fill_args", "set_valid", "post_call"}
          /\ pc'[t] # pc[t])
         => holder[slot[t]] = t]_vars

(* C2: every increment of the ring overflow counter by a stub is       *)
(* reported: at any time the sum of N over the OVERFLOW notices sent,  *)
(* plus the increments still waiting in the counter for the next       *)
(* report, equals the number of increments, and the daemon's           *)
(* events_dropped total equals the sum of N.                           *)
C2_OverflowReported ==
    g_anchor # NULL =>
        /\ noticeSum + overflow = ovfTotal
        /\ g_events_dropped = noticeSum

(* C7: when a global DISABLE completes (the daemon's reply is sent, or *)
(* the loader's do_disable returns), write_pos = read_pos and the      *)
(* overflow counter is zero.                                           *)
C7_DrainedOnDisable ==
    [][(\/ dpc = "dis_reply" /\ dpc' = "idle"
        \/ lpc = "drain" /\ lpc' = "idle")
       => (write_pos' = read_pos' /\ overflow' = 0)]_vars

(* C5: every event line delivered to a client in a TRACE RUN session   *)
(* has caller_task equal to the client's run_task_ptr and a sequence   *)
(* not below the client's run_start_seq.                               *)
C5_RunTargeting ==
    \A i \in Clients :
        (lastSent[i].kind = "event" /\ lastSent[i].mode = TRACE_MODE_RUN)
        => /\ lastSent[i].caller_task = lastSent[i].run_task_ptr
           /\ lastSent[i].sequence >= lastSent[i].run_start_seq

(* C10: after QUIT has freed the ring, no stub invocation reads or     *)
(* writes ring memory.                                                 *)
C10_NoRingAccessAfterFree ==
    ~uaf


(* C6: whenever the poll loop is about to send the event it has just   *)
(* formatted, it sends it to a streaming client exactly when the event *)
(* matches every filter of the client's TRACE START line: the LIB      *)
(* library, the FUNC function, the PROC substring of the bare task     *)
(* name, and an error return for ERRORS.                               *)
C6_FilterAnd ==
    dpc = "poll_send" =>
        \A i \in Clients :
            (clients[i].active = 1 /\ clients[i].mode = TRACE_MODE_START) =>
                (PollWants(clients[i], entries[pos])
                   <=> MatchesAll(asked[i], entries[pos].func,
                                  entries[pos].retval,
                                  resolve_task_name(entries[pos].caller_task)))

(* C8: a stub step that finds its patch disabled, global_enable zero,  *)
(* or a target-task filter set to another task goes to the pass-       *)
(* through path and changes neither write_pos, the sequence counter,   *)
(* the overflow counter, any use_count nor any ring entry; the pass-   *)
(* through path then calls the original, once in the invocation, and   *)
(* changes none of them either.                                        *)
C8_PassThrough ==
    [][\A t \in Tasks :
         /\ ((\/ pc[t] = "idle" /\ pc'[t] # "idle"
                 /\ enabled[spatch'[t]] = 0
              \/ pc[t] = "tst_global" /\ pc'[t] # pc[t]
                 /\ global_enable = 0
              \/ pc[t] = "cmp_filter" /\ pc'[t] # pc[t]
                 /\ filter_task \notin {NULL, t})
             => /\ pc'[t] = "disabled"
                /\ UNCHANGED <<write_pos, event_sequence, overflow,
                               use_count, entries>>)
         /\ ((pc[t] = "disabled" /\ pc'[t] # pc[t])
             => /\ pc'[t] = "idle"
                /\ origCalls[t] = 0
                /\ origCalls'[t] = 1
                /\ UNCHANGED <<write_pos, event_sequence, overflow,
                               use_count, entries>>)]_vars

(* C8 happens: OpenLibrary was disabled by name and a call of it has   *)
(* passed through to the original, while FindPort, enabled by name,    *)
(* has produced an entry.                                              *)
C8_Witness ==
    /\ enabled[OpenLibrary] = 0
    /\ enabled[FindPort] = 1
    /\ pc["t1"] = "idle"
    /\ spatch["t1"] = OpenLibrary
    /\ origCalls["t1"] = 1
    /\ \E s \in Slots : entries[s].valid = 1 /\ entries[s].func = FindPort

(* C9: while t1 stays blocked inside the original function after it    *)
(* published its entry, each event t2 publishes for a streaming client *)
(* (valid = 1 written before its own call of the original) is          *)
(* eventually sent to that client.                                     *)
C9_BlockedProducerNoStall ==
    \A q \in 0 .. (MaxCalls - 1) :
        (/\ pc["t1"] = "orig"
         /\ clients[1].active = 1
         /\ pc["t2"] = "orig"
         /\ sseq["t2"] = q
         /\ entries[slot["t2"]].valid = 1
         /\ entries[slot["t2"]].sequence = q)
        ~> (lastSent[1].kind = "event" /\ lastSent[1].sequence = q)

(* C11: once QUIT has completed while a client has an active trace     *)
(* session and the daemon keeps polling, the session eventually has    *)
(* received "# ATRACE SHUTDOWN" and is idle, and the daemon has        *)
(* cleared its cached anchor pointer.                                  *)
C11_ShutdownObserved ==
    \A i \in Clients :
        (lpc = "gone" /\ clients[i].active = 1)
        ~> (/\ clients[i].active = 0
            /\ lastSent[i].kind = "shutdown"
            /\ g_anchor = NULL)

C15_FinalDrainComplete ==
    [][\A i \in Clients :
          (dpc = "drain_exit" /\ dci = i /\ lastSent'[i].kind = "exited")
          => ~\E s \in Slots :
                 /\ holder[s] = clients[i].run_task_ptr
                 /\ entries[s].valid = 1
                 /\ entries[s].caller_task = clients[i].run_task_ptr
                 /\ entries[s].sequence >= clients[i].run_start_seq
                 /\ trace_filter_match(clients[i].filter, EvLibId(entries[s]),
                                       EvLvo(entries[s]), entries[s].retval,
                                       resolve_task_name(entries[s].caller_task))
      ]_vars

C17_LockCachePath ==
    \A i \in Clients :
        (/\ clients[i].fd >= 0 /\ clients[i].active = 1
         /\ IsCurrentDir(line)
         /\ line.args \in LockVals
         /\ lockPaths[i][line.args] # <<>>)
        => line.path = lockPaths[i][line.args]

(* C18: a client whose filter line has a LIB= value that names no      *)
(* library of the function table, or a FUNC= value that names no       *)
(* function, is sent no event during that session.                     *)
C18_UnknownNamesMatchNothing ==
    \A i \in Clients :
        (/\ clients[i].active = 1
         /\ \/ \E x \in asked[i].libs :
                  \A p \in PatchIds : ~NamesLibrary(x, func_table[p].lib_name)
            \/ \E f \in asked[i].funcs :
                  \A p \in PatchIds : ~stricmp0(f, func_table[p].func_name))
        => lastSent[i].kind # "event"

(* C19: for every function of the function table and every return     *)
(* value, the line's status character is E exactly when the event      *)
(* passes the ERRORS test of the filter.                               *)
C19_StatusAgreesWithErrors ==
    line.func # 0 =>
        ((line.status = "E")
           <=> ErrorsPass(func_table[line.func].lib_id,
                          func_table[line.func].lvo_offset, line.retval))

(* C20: no client has a trace session and a tail session active at    *)
(* once; an active START session has no RUN process and an active RUN  *)
(* session has one; and a TRACE START or TRACE RUN dispatched while    *)
(* the client has a tail or trace session active sends an error and    *)
(* changes neither the client's session state, nor the target-task     *)
(* filter, nor a patch's enabled flag.                                 *)
C20_SessionsExclusive ==
    /\ [](\A i \in Clients :
            /\ ~(clients[i].active = 1 /\ clients[i].tail_active = 1)
            /\ (clients[i].active = 1 /\ clients[i].mode = TRACE_MODE_START)
                  => (/\ clients[i].run_proc_slot = -1
                      /\ clients[i].run_task_ptr = NULL)
            /\ (clients[i].active = 1 /\ clients[i].mode = TRACE_MODE_RUN)
                  => clients[i].run_task_ptr # NULL)
    /\ [][\A i \in Clients :
            (/\ clients[i].recv_buf # <<>>
             /\ dpc = "idle"
             /\ Head(clients[i].recv_buf) \in {StartLine, RunLine}
             /\ clients[i].tail_active = 1 \/ clients[i].active = 1
             /\ clients'[i].recv_buf = Tail(clients[i].recv_buf))
            => (/\ lastSent'[i] = [kind |-> "error"]
                /\ clients'[i] = Extracted(i)[i]
                /\ filter_task' = filter_task
                /\ enabled' = enabled)]_vars

(* C21: when a line of a client with an active trace session has been  *)
(* handled, then if the line was STOP the client is idle (no trace and  *)
(* no tail session, START mode, no RUN process, no saved noise flags),  *)
(* END was sent and a filter the session owned is null; if it was any   *)
(* other line the session is active with its filters, mode and task     *)
(* pointer unchanged, and the target-task filter and the enabled flags  *)
(* are unchanged.                                                      *)
C21_OnlyStopActs ==
    [][\A i \in Clients :
         (/\ clients[i].active = 1
          /\ dpc \in {"tail_input", "trace_input"}
          /\ dci = i
          /\ dpc' = "idle")
         => IF Head(clients[i].recv_buf) = StopLine
            THEN /\ clients'[i].active = 0
                 /\ clients'[i].tail_active = 0
                 /\ clients'[i].mode = TRACE_MODE_START
                 /\ clients'[i].run_proc_slot = -1
                 /\ clients'[i].run_task_ptr = NULL
                 /\ clients'[i].noise_saved = 0
                 /\ lastSent'[i] = [kind |-> "end"]
                 /\ clients[i].noise_saved = 1 => filter_task' = NULL
            ELSE /\ clients'[i].active = 1
                 /\ clients'[i].filter = clients[i].filter
                 /\ clients'[i].mode = clients[i].mode
                 /\ clients'[i].run_task_ptr = clients[i].run_task_ptr
                 /\ filter_task' = filter_task
                 /\ enabled' = enabled]_vars

(* The noise functions have the enabled flags client i's session saved. *)
NoiseRestoredNext(i) ==
    \A n \in 1 .. Len(NoisePatchIndices) :
        enabled'[NoisePatchIndices[n]] = clients[i].noise_saved_enabled[n]

(* C22: in the broadcast of an event, a client the event is for either *)
(* receives it or is closed; a client that is closed after a failed    *)
(* send has no active session and no saved noise flags, and if it      *)
(* owned the filter the filter is null and the noise functions have    *)
(* their saved flags; a closed client is sent nothing more and stays   *)
(* closed; the RUN client of a final drain is sent nothing after its   *)
(* send failed, and is closed at the end of the drain.                 *)
C22_SendFailureCleanup ==
    [][\A i \in Clients :
         /\ (/\ dpc = "poll_send" /\ dpc' = "poll_rel"
             /\ PollWants(clients[i], entries[pos]))
              => \/ /\ lastSent'[i] = EventChunk(clients[i], line)
                    /\ clients'[i] = clients[i]
                 \/ clients'[i].fd = -1
         /\ (clients[i].fd >= 0 /\ clients'[i].fd < 0)
              => /\ clients'[i].active = 0
                 /\ clients'[i].noise_saved = 0
                 /\ clients'[i].run_task_ptr = NULL
                 /\ clients[i].noise_saved = 1
                      => (filter_task' = NULL /\ NoiseRestoredNext(i))
         /\ clients[i].fd < 0
              => (clients'[i].fd < 0 /\ lastSent'[i] = lastSent[i])
         /\ (dpc \in {"drain_loop", "drain_fmt", "drain_send", "drain_rel",
                      "drain_fin", "drain_exit"}
              /\ dci = i /\ run_ok = 0)
              => /\ lastSent'[i] = lastSent[i]
                 /\ (dpc = "drain_exit" /\ dpc' = "idle")
                      => clients'[i].fd = -1]_vars

(* A RUN client that owned the filter was closed by a failed send. *)
C22_Witness ==
    /\ clients[1].fd = -1
    /\ clients[1].active = 0
    /\ filter_task = NULL
    /\ next_proc_id > 1
    /\ lastSent[2].kind = "event"

NamedPatches(ns) ==
    { p \in PatchIds :
        \E k \in 1 .. Len(ns) : stricmp0(ns[k], func_table[p].func_name) }

AnyUnknown(ns) ==
    \E k \in 1 .. Len(ns) :
        \A p \in PatchIds : ~stricmp0(ns[k], func_table[p].func_name)

(* per list of names: the flags a command with value v must leave *)
NameMeaning ==
    [c \in NameCases |->
       [unknown |-> AnyUnknown(c.names), named |-> NamedPatches(c.names)]]

(* What a command with the names of c and the flag value v must do. *)
NamesOutcome(c, v, failed, succeeded) ==
    /\ UNCHANGED <<global_enable, read_pos, write_pos>>
    /\ IF NameMeaning[c].unknown
       THEN failed /\ UNCHANGED enabled
       ELSE /\ succeeded
            /\ enabled' = [p \in PatchIds |->
                             IF p \in NameMeaning[c].named
                             THEN v ELSE enabled[p]]

(* C24: ENABLE and DISABLE with function names are all-or-nothing, in  *)
(* the daemon and in the loader: with an unknown name in the list the  *)
(* command fails and no enabled flag and not global_enable changes;    *)
(* with every name known exactly the named patches' flags are set      *)
(* (ENABLE) or cleared (DISABLE), and global_enable, the ring          *)
(* positions and all other patches keep their values.                  *)
C24_NamesAllOrNothing ==
    [][\A c \in NameCases :
         /\ trace_cmd_enable(2, c.daemon)
              => NamesOutcome(c, 1, lastSent'[2].kind = "error",
                              lastSent'[2].kind = "ok")
         /\ trace_cmd_disable(2, c.daemon)
              => NamesOutcome(c, 0, lastSent'[2].kind = "error",
                              lastSent'[2].kind = "ok")
         /\ do_enable_funcs(c.loader)
              => NamesOutcome(c, 1, lpc' = "RETURN_FAIL",
                              lpc' = "RETURN_OK")
         /\ do_disable_funcs(c.loader)
              => NamesOutcome(c, 0, lpc' = "RETURN_FAIL",
                              lpc' = "RETURN_OK")]_vars

(* a list with an unknown name has failed in the loader and in the *)
(* daemon after FindPort was enabled and OpenLibrary disabled by   *)
(* name, with entries in the ring                                  *)
C24_Witness ==
    /\ lpc = "RETURN_FAIL"
    /\ lastSent[2].kind = "error"
    /\ enabled[FindPort] = 1
    /\ enabled[OpenLibrary] = 0
    /\ write_pos # read_pos

EventDelivered ==
    \E i \in Clients : lastSent'[i] # lastSent[i] /\ lastSent'[i].kind = "event"

(* C26: a poll of the ring that finds read_pos >= capacity, in         *)
(* trace_poll_events or in the final drain, sets read_pos to write_pos *)
(* and in that cycle consumes no event, delivers no event to any       *)
(* client, leaves events_consumed unchanged and releases the           *)
(* semaphore; the new read_pos is inside the ring, so that the next    *)
(* poll starts from it.                                                *)
C26_CorruptReadPosRecovery ==
    [][/\ (dpc = "poll_sem" /\ dpc' # dpc /\ read_pos >= RingCap
             /\ ring_ptr # NULL /\ ~sem_excl)
            => /\ read_pos' = write_pos
               /\ read_pos' < RingCap
               /\ entries' = entries
               /\ ~EventDelivered
               /\ events_consumed' = events_consumed
               /\ sem_shared' = 0
               /\ dpc' = "idle"
       /\ (dpc = "idle" /\ dpc' = "drain_loop" /\ read_pos >= RingCap)
            => /\ read_pos' = write_pos
               /\ read_pos' < RingCap
       /\ (recovered /\ dpc \in {"drain_loop", "drain_fmt", "drain_send",
                                 "drain_rel", "drain_fin"})
            => /\ read_pos' = read_pos
               /\ ~EventDelivered
               /\ events_consumed' = events_consumed
               /\ dpc' = "drain_exit" => sem_shared' = 0]_vars

(* the step in which do_install returns after a failed allocation *)
InstallAllocFailed ==
    /\ lpc \in {"alloc_anchor", "alloc_ring", "alloc_patches", "alloc_name"}
    /\ lpc' = "RETURN_FAIL"

(* C27: when an allocation of do_install fails (anchor, ring, patch   *)
(* array or semaphore name) the install returns failure with the      *)
(* semaphore not added to the system list, no library vector          *)
(* replaced, and every block the attempt allocated freed again.       *)
C27_InstallFailureReleases ==
    [][InstallAllocFailed
         => /\ ~inst'.published
            /\ inst'.patched = {}
            /\ \A b \in Blocks : <<b, inst.attempt>> \notin inst'.allocated]_vars

(* C28: an entry the consumer reads while its producer has not yet     *)
(* returned from the original call carries return value 0, also in a   *)
(* slot used by earlier events; and the return value of every entry    *)
(* read is 0 or the value returned by the call of its own reservation. *)
C28_InFlightRetvalZero ==
    [][(dpc = "poll_fmt" /\ dpc' = "poll_send")
         => /\ \A t \in Tasks :
                 (holder[pos] = t /\ slot[t] = pos /\ pc[t] = "orig")
                    => line'.retval = 0
            /\ line'.retval \in {0, line'.sequence + 1}]_vars

(* the sum of use_count over the patches 1 .. n *)
RECURSIVE SumUseCount(_)
SumUseCount(n) ==
    IF n = 0 THEN 0 ELSE use_count[n] + SumUseCount(n - 1)

(* C29: at all times the number of ring entries with valid = 1 and   *)
(* retval = 0 is at most the sum of the in-flight counters of all    *)
(* patches.                                                          *)
C29_InFlightBound ==
    Cardinality({s \in Slots : entries[s].valid = 1 /\ entries[s].retval = 0})
        <= SumUseCount(FUNC_TABLE_SIZE)

(* the slots reserved and not yet released by the consumer *)
Unconsumed ==
    {s \in Slots : holder[s] # NULL}

(* C30: from an empty ring, write_pos and read_pos stay below the     *)
(* capacity; a successful reservation stores (write_pos + 1) mod      *)
(* capacity, which differs from read_pos; the ring holds at most      *)
(* capacity - 1 unconsumed entries; write_pos = read_pos means no     *)
(* unconsumed entry; and the slot a reservation takes is not held by  *)
(* an unconsumed entry.                                               *)
C30_RingIndexInvariants ==
    /\ [](/\ write_pos < RingCap
          /\ read_pos < RingCap
          /\ Cardinality(Unconsumed) <= RingCap - 1
          /\ (write_pos = read_pos) => (Unconsumed = {}))
    /\ [][\A t \in Tasks :
            (pc[t] = "reserve" /\ pc'[t] = "fill_hdr")
               => /\ write_pos' = (write_pos + 1) % RingCap
                  /\ write_pos' # read_pos
                  /\ slot'[t] = write_pos
                  /\ holder[write_pos] = NULL]_vars

(* the ring is full after it has wrapped: capacity - 1 entries are   *)
(* unconsumed, the consumer has advanced and a stub has found        *)
(* next = read_pos                                                   *)
C30_Witness ==
    /\ Cardinality(Unconsumed) = RingCap - 1
    /\ read_pos # 0
    /\ write_pos = (read_pos + RingCap - 1) % RingCap
    /\ ovfTotal > 0

(* task t has reserved a slot and has stores into its entry ahead: the *)
(* fill, valid = 1, or the post-call handler's retval and valid        *)
HasReservation(t) ==
    pc[t] \in {"fill_hdr", "fill_args", "set_valid", "orig", "post_call"}

InFlight(p) ==
    {t \in Tasks : /\ spatch[t] = p
                   /\ pc[t] \in {"fill_hdr", "fill_args", "set_valid",
                                 "orig", "post_call", "post_dec"}}

(* C32: for every patch, use_count equals the number of invocations   *)
(* of its stub that have reserved a slot and not finished the         *)
(* post-call handler (so it is never negative and is 0 when no traced *)
(* call of the function is in flight); it changes only by +1 in a     *)
(* successful reservation and by -1 once in the post-call handler     *)
(* after the original returned, and no step into or out of the        *)
(* pass-through and overflow paths changes it.                        *)
C32_UseCountBalance ==
    /\ [](\A p \in PatchIds : /\ use_count[p] = Cardinality(InFlight(p))
                              /\ use_count[p] >= 0)
    /\ [][\A p \in PatchIds :
            use_count'[p] # use_count[p]
               => \E t \in Tasks :
                     /\ spatch[t] = p
                     /\ \/ /\ pc[t] = "reserve"
                           /\ pc'[t] = "fill_hdr"
                           /\ use_count' = [use_count EXCEPT ![p] = @ + 1]
                        \/ /\ pc[t] = "post_dec"
                           /\ pc'[t] = "idle"
                           /\ origCalls[t] = 1
                           /\ use_count' = [use_count EXCEPT ![p] = @ - 1]]_vars
    /\ [][\A t \in Tasks :
            (/\ pc'[t] # pc[t]
             /\ \/ pc[t] \in {"disabled", "overflow"}
                \/ pc'[t] \in {"disabled", "overflow"})
               => UNCHANGED use_count]_vars

(* after an overflow, t1 passes through the disabled FindPort while a *)
(* traced OpenLibrary call of t2 is about to decrement its counter    *)
C32_Witness ==
    /\ ovfTotal > 0
    /\ pc["t1"] = "disabled"
    /\ spatch["t1"] = FindPort
    /\ pc["t2"] = "post_dec"
    /\ spatch["t2"] = OpenLibrary
    /\ use_count[OpenLibrary] = 1

(* client i's command starts a TRACE RUN session in this step *)
RunStarts(i) ==
    /\ clients[i].active = 0
    /\ clients'[i].active = 1
    /\ clients'[i].mode = TRACE_MODE_RUN

(* a connected client with an active RUN session whose task pointer is *)
(* the filter                                                          *)
FilterOwned ==
    \E f \in Clients : /\ clients[f].fd >= 0
                       /\ clients[f].active = 1
                       /\ clients[f].mode = TRACE_MODE_RUN
                       /\ clients[f].run_task_ptr = filter_task

RunRejectedStep(i) ==
    /\ clients[i].recv_buf # <<>>
    /\ \E a \in RunArgLines, cdFound \in BOOLEAN, created \in BOOLEAN :
          trace_cmd_run_rejects(Extracted(i), i, a, cdFound, created)

(* a process slot is running a new child after this step *)
ChildSpawned ==
    \E s \in ProcSlots : /\ procs'[s] # procs[s]
                         /\ procs'[s].status = PROC_RUNNING

(* what every rejected TRACE RUN does beside the client's active flag *)
RejectedRunFrame(i) ==
    /\ lastSent'[i].kind = "error"
    /\ ~ChildSpawned
    /\ clients'[i].noise_saved = clients[i].noise_saved
    /\ filter_task' = filter_task
    /\ enabled' = enabled

QuitDone ==
    lpc = "gone"

C35_QuitCompletes ==
    /\ (lpc = "quit_drain") ~> QuitDone
    /\ [](QuitDone => /\ global_enable = 0
                      /\ ~inst.published
                      /\ ring_ptr = NULL)

(* the part of C35 that holds: QUIT ends, unregistered and ring freed *)
C35_QuitEnds ==
    /\ (lpc = "quit_drain") ~> QuitDone
    /\ [](QuitDone => ~inst.published /\ ring_ptr = NULL)

(* C36: the consumer never consumes more than was produced:             *)
(* events_consumed <= event_sequence in every state, and the consumer   *)
(* releases a slot (clears valid and moves read_pos past it) only when   *)
(* read_pos has not caught up with write_pos and the slot was reserved   *)
(* again since its last release.                                         *)
ConsumerTakes ==
    \/ dpc = "poll_rel" /\ dpc' = "poll_loop"
    \/ dpc = "drain_rel" /\ dpc' = "drain_loop"

C36_ConsumerBehind ==
    /\ [](events_consumed <= event_sequence)
    /\ [][ConsumerTakes => /\ read_pos # write_pos
                           /\ holder[pos] # NULL]_vars

(* C37: the daemon never dereferences a freed ring: whenever the daemon *)
(* is at a read or write of the ring header or of ring entries (in the  *)
(* poll, the global TRACE DISABLE or the final drain of TRACE RUN) it   *)
(* holds the semaphore shared and the ring pointer is not NULL.         *)
DaemonInRing ==
    dpc \in {"poll_loop", "poll_fmt", "poll_rel", "poll_fin",
             "drain_loop", "drain_fmt", "drain_rel", "drain_fin",
             "dis_clear", "dis_advance", "dis_overflow"}

C37_RingHeldWhileUsed ==
    DaemonInRing => sem_shared = 1 /\ ring_ptr # NULL

(* C38: filter ownership: between daemon handlers filter_task is        *)
(* non-null if and only if exactly one connected client has             *)
(* noise_saved = 1, that client has an active RUN session and its task  *)
(* pointer equals the filter; never do two clients have noise_saved = 1 *)
NoiseSavers ==
    {i \in Clients : clients[i].noise_saved = 1}

ConnectedSavers ==
    {i \in NoiseSavers : clients[i].fd >= 0}

OwnsFilter(i) ==
    /\ clients[i].active = 1
    /\ clients[i].mode = TRACE_MODE_RUN
    /\ clients[i].run_task_ptr = filter_task

NoiseBaseline ==
    [n \in 1 .. Len(NoisePatchIndices) |-> 0]

AllSessionsEnded ==
    /\ dpc = "idle"
    /\ \A i \in Clients : clients[i].active = 0

NameIndex ==
    [i \in PatchIds |->
        [daemon |-> find_patch_index_by_name(func_table[i].func_name),
         loader |-> find_patch_by_name(func_table[i].func_name)]]

NamedPatch(i) ==
    PatchArray[inst.opened][NameIndex[i].daemon]

C40_NameToPatch ==
    inst.published
       => \A i \in LibFuncs(inst.opened) :
             /\ NameIndex[i].daemon = NameIndex[i].loader
             /\ NameIndex[i].daemon \in PatchIds
             /\ NamedPatch(i).lib_id = func_table[i].lib_id
             /\ NamedPatch(i).lvo_offset = func_table[i].lvo_offset
====
